---- MODULE Spec2Model ----
\* Markdown -> folder generator: the heading / code-block assignment engine
\* (map_headings_to_files), the conflict handling and fuzzy fallback of
\* generator.main, the rescue pass (try_rescue_unassigned) and the writer's
\* content preparation.  Python strings are sequences of one-character strings.
EXTENDS Integers, Sequences, FiniteSets, TLC

\* ===========================================================================
\* Python str / list primitives
\* ===========================================================================

NL == "\n"

\* the backtick character (a string literal cannot hold it)
Backtick == "BACKTICK"

\* str.strip() / str.rstrip() without argument strip these characters
Whitespace == {" ", NL, "\t"}

UpperToLower ==
  [c \in {"A","B","C","D","E","F","G","H","I","J","K","L","M","N","O","P","Q",
          "R","S","T","U","V","W","X","Y","Z"} |->
     CASE c = "A" -> "a" [] c = "B" -> "b" [] c = "C" -> "c" [] c = "D" -> "d"
       [] c = "E" -> "e" [] c = "F" -> "f" [] c = "G" -> "g" [] c = "H" -> "h"
       [] c = "I" -> "i" [] c = "J" -> "j" [] c = "K" -> "k" [] c = "L" -> "l"
       [] c = "M" -> "m" [] c = "N" -> "n" [] c = "O" -> "o" [] c = "P" -> "p"
       [] c = "Q" -> "q" [] c = "R" -> "r" [] c = "S" -> "s" [] c = "T" -> "t"
       [] c = "U" -> "u" [] c = "V" -> "v" [] c = "W" -> "w" [] c = "X" -> "x"
       [] c = "Y" -> "y" [] c = "Z" -> "z"]

\* str.lower()
Lower(s) ==
  [k \in 1..Len(s) |-> IF s[k] \in DOMAIN UpperToLower THEN UpperToLower[s[k]] ELSE s[k]]

\* s[from:] with a 1-based index
Drop(s, k) == SubSeq(s, k + 1, Len(s))

\* str.lstrip(chars)
RECURSIVE LStripSet(_, _)
LStripSet(s, cs) ==
  IF s # <<>> /\ Head(s) \in cs THEN LStripSet(Tail(s), cs) ELSE s

\* str.rstrip(chars)
RECURSIVE RStripSet(_, _)
RStripSet(s, cs) ==
  IF s # <<>> /\ s[Len(s)] \in cs THEN RStripSet(SubSeq(s, 1, Len(s) - 1), cs) ELSE s

\* str.strip()
Strip(s) == RStripSet(LStripSet(s, Whitespace), Whitespace)

\* str.rstrip()
RStrip(s) == RStripSet(s, Whitespace)

\* str.lstrip()
LStrip(s) == LStripSet(s, Whitespace)

\* str.startswith(p)
StartsWith(s, p) == Len(p) <= Len(s) /\ SubSeq(s, 1, Len(p)) = p

\* str.endswith(p)
EndsWith(s, p) == Len(p) <= Len(s) /\ SubSeq(s, Len(s) - Len(p) + 1, Len(s)) = p

\* p in s
Contains(s, p) ==
  \E k \in 0..(Len(s) - Len(p)) : SubSeq(s, k + 1, k + Len(p)) = p

\* str.replace(old, new) for a single character old
ReplaceChar(s, old, new) ==
  [k \in 1..Len(s) |-> IF s[k] = old THEN new ELSE s[k]]

\* str.replace(c, "") for a single character c
RECURSIVE RemoveChar(_, _)
RemoveChar(s, c) ==
  IF s = <<>> THEN <<>>
  ELSE IF Head(s) = c THEN RemoveChar(Tail(s), c)
  ELSE <<Head(s)>> \o RemoveChar(Tail(s), c)

\* str.replace(old, new) for a non-empty string old
RECURSIVE ReplaceAll(_, _, _)
ReplaceAll(s, old, new) ==
  IF Len(s) < Len(old) THEN s
  ELSE IF StartsWith(s, old) THEN new \o ReplaceAll(Drop(s, Len(old)), old, new)
  ELSE <<Head(s)>> \o ReplaceAll(Tail(s), old, new)

\* str.split(c): the pieces between the occurrences of c
RECURSIVE SplitOn(_, _)
SplitOn(s, c) ==
  IF \A k \in 1..Len(s) : s[k] # c THEN <<s>>
  ELSE LET k == CHOOSE k \in 1..Len(s) : s[k] = c /\ \A j \in 1..(k - 1) : s[j] # c
       IN  <<SubSeq(s, 1, k - 1)>> \o SplitOn(Drop(s, k), c)

\* str.splitlines(): no trailing empty line, "" gives []
SplitLines(s) ==
  LET Lines(parts) ==
        IF parts[Len(parts)] = <<>> THEN SubSeq(parts, 1, Len(parts) - 1) ELSE parts
  IN  Lines(SplitOn(s, NL))

\* sep.join(parts)
RECURSIVE Join(_, _)
Join(parts, sep) ==
  IF parts = <<>> THEN <<>>
  ELSE IF Len(parts) = 1 THEN parts[1]
  ELSE parts[1] \o sep \o Join(Tail(parts), sep)

\* [x for x in seq if x in keep], order kept
RECURSIVE FilterSeq(_, _)
FilterSeq(seq, keep) ==
  IF seq = <<>> THEN <<>>
  ELSE IF Head(seq) \in keep THEN <<Head(seq)>> \o FilterSeq(Tail(seq), keep)
  ELSE FilterSeq(Tail(seq), keep)

\* the elements of a list
Range(seq) == {seq[k] : k \in 1..Len(seq)}

\* ===========================================================================
\* pathlib.PurePosixPath
\* ===========================================================================

\* Path(p).parts: empty and "." segments are dropped, a leading "/" is the root
PathParts(p) ==
  LET Kept(segs) == FilterSeq(segs, {x \in Range(segs) : x # <<>> /\ x # <<".">>})
      Parts(body) == IF p # <<>> /\ Head(p) = "/" THEN <<(<<"/">>)>> \o body ELSE body
  IN  Parts(Kept(SplitOn(p, "/")))

\* str(Path(*parts))
JoinParts(parts) ==
  IF parts # <<>> /\ parts[1] = <<"/">> THEN <<"/">> \o Join(Tail(parts), <<"/">>)
  ELSE Join(parts, <<"/">>)

\* Path(p).name
PathName(p) ==
  LET Name(parts) ==
        IF parts = <<>> \/ parts[Len(parts)] = <<"/">> THEN <<>> ELSE parts[Len(parts)]
  IN  Name(PathParts(p))

\* name.rfind('.'), 1-based, 0 when there is no dot
LastDot(name) ==
  IF \A k \in 1..Len(name) : name[k] # "." THEN 0
  ELSE CHOOSE k \in 1..Len(name) : name[k] = "." /\ \A j \in (k + 1)..Len(name) : name[j] # "."

\* Path(p).suffix: the dot is neither the first nor the last character of the name
PathSuffix(p) ==
  LET Cut(name, d) == IF 1 < d /\ d < Len(name) THEN SubSeq(name, d, Len(name)) ELSE <<>>
      Suffix(name) == Cut(name, LastDot(name))
  IN  Suffix(PathName(p))

\* Path(p).stem
PathStem(p) ==
  LET Cut(name, d) == IF 1 < d /\ d < Len(name) THEN SubSeq(name, 1, d - 1) ELSE name
      Stem(name) == Cut(name, LastDot(name))
  IN  Stem(PathName(p))

\* the names of Path(p).parents (every part but the last)
ParentNames(p) ==
  LET Names(parts) == {parts[k] : k \in 1..(Len(parts) - 1)}
  IN  Names(PathParts(p))

\* ===========================================================================
\* difflib.SequenceMatcher (no junk; autojunk needs 200 elements)
\* ===========================================================================

\* length of the common run of a from i and b from j
RECURSIVE CommonRun(_, _, _, _)
CommonRun(a, b, i, j) ==
  IF i > Len(a) \/ j > Len(b) \/ a[i] # b[j] THEN 0
  ELSE 1 + CommonRun(a, b, i + 1, j + 1)

\* find_longest_match: longest block, earliest in a, then earliest in b
LongestMatch(a, b) ==
  LET Longest(runs) == CHOOSE x \in runs : \A y \in runs : y <= x
      FirstInA(k) ==
        CHOOSE x \in 1..Len(a) :
          /\ \E y \in 1..Len(b) : CommonRun(a, b, x, y) = k
          /\ \A w \in 1..(x - 1) : \A y \in 1..Len(b) : CommonRun(a, b, w, y) # k
      FirstInB(i, k) ==
        CHOOSE y \in 1..Len(b) :
          /\ CommonRun(a, b, i, y) = k
          /\ \A w \in 1..(y - 1) : CommonRun(a, b, i, w) # k
      At(i, k) == <<i, FirstInB(i, k), k>>
      Of(k) == At(FirstInA(k), k)
  IN  Of(Longest({CommonRun(a, b, p[1], p[2]) : p \in (1..Len(a)) \X (1..Len(b))}))

\* sum of the sizes of get_matching_blocks()
RECURSIVE MatchCount(_, _)
MatchCount(a, b) ==
  IF a = <<>> \/ b = <<>> THEN 0
  ELSE LET Blocks(m) ==
             IF m[3] = 0 THEN 0
             ELSE m[3]
                  + MatchCount(SubSeq(a, 1, m[1] - 1), SubSeq(b, 1, m[2] - 1))
                  + MatchCount(Drop(a, m[1] + m[3] - 1), Drop(b, m[2] + m[3] - 1))
       IN  Blocks(LongestMatch(a, b))

\* SequenceMatcher(None, a, b).ratio() >= num/den, with ratio = 2*M / (|a|+|b|)
RatioAtLeast(a, b, num, den) ==
  IF Len(a) + Len(b) = 0 THEN TRUE
  ELSE 2 * MatchCount(a, b) * den >= num * (Len(a) + Len(b))

\* ===========================================================================
\* map_headings_to_files.py: string utilities
\* ===========================================================================

\* calculate_string_similarity(str1, str2) >= threshold, threshold = num/den
SimilarityAtLeast(str1, str2, num, den) ==
  IF str1 = <<>> \/ str2 = <<>> THEN num <= 0
  ELSE RatioAtLeast(Lower(str1), Lower(str2), num, den)

\* are_strings_similar(str1, str2) with the default threshold 0.8
are_strings_similar(str1, str2) == SimilarityAtLeast(str1, str2, 8, 10)

\* get_path_specificity(path)
get_path_specificity(path) == Len(PathParts(path))

\* normalize_path_string(path_str)
normalize_path_string(path_str) ==
  IF path_str = <<>> THEN <<>>
  ELSE RStripSet(LStripSet(ReplaceChar(path_str, "\\", "/"), {".", "/"}), {"/"})

\* re.sub(d (.*?) d, \1, text): leftmost pairs of the delimiter d on one line
RECURSIVE RemovePairs(_, _)
RemovePairs(text, d) ==
  IF Len(text) < Len(d) THEN text
  ELSE IF StartsWith(text, d)
            /\ \E j \in (Len(d) + 1)..(Len(text) - Len(d) + 1) :
                 /\ SubSeq(text, j, j + Len(d) - 1) = d
                 /\ \A k \in (Len(d) + 1)..(j - 1) : text[k] # NL
       THEN LET j == CHOOSE j \in (Len(d) + 1)..(Len(text) - Len(d) + 1) :
                       /\ SubSeq(text, j, j + Len(d) - 1) = d
                       /\ \A k \in (Len(d) + 1)..(j - 1) : text[k] # NL
                       /\ \A i \in (Len(d) + 1)..(j - 1) :
                            SubSeq(text, i, i + Len(d) - 1) # d
            IN  SubSeq(text, Len(d) + 1, j - 1) \o RemovePairs(Drop(text, j + Len(d) - 1), d)
       ELSE <<Head(text)>> \o RemovePairs(Tail(text), d)

\* re.sub(r'<[^>]+>', '', text)
RECURSIVE RemoveTags(_)
RemoveTags(text) ==
  IF text = <<>> THEN <<>>
  ELSE IF Head(text) = "<" /\ \E j \in 3..Len(text) : text[j] = ">" /\ \A k \in 2..(j - 1) : text[k] # ">"
       THEN LET j == CHOOSE j \in 3..Len(text) : text[j] = ">" /\ \A k \in 2..(j - 1) : text[k] # ">"
            IN  RemoveTags(Drop(text, j))
       ELSE <<Head(text)>> \o RemoveTags(Tail(text))

\* clean_markdown_formatting(text)
clean_markdown_formatting(text) ==
  IF text = <<>> THEN <<>>
  ELSE LET t1 == RemovePairs(text, <<"*", "*">>)
           t2 == RemovePairs(t1, <<"*">>)
           t3 == RemovePairs(t2, <<"_">>)
           t4 == RemovePairs(t3, <<Backtick>>)
           t5 == RemoveTags(t4)
           t6 == RemoveChar(RemoveChar(t5, "*"), "_")
       IN  Strip(t6)

\* ===========================================================================
\* utils/config/config.py
\* ===========================================================================

\* extensions of get_comment_prefix mapped to '# '
HashExts ==
  {<<".", "p", "y">>,
   <<".", "s", "h">>,
   <<".", "b", "a", "s", "h">>,
   <<".", "z", "s", "h">>,
   <<".", "p", "s", "1">>,
   <<".", "y", "m", "l">>,
   <<".", "y", "a", "m", "l">>,
   <<".", "c", "f", "g">>,
   <<".", "c", "o", "n", "f">>,
   <<".", "t", "x", "t">>,
   <<".", "r", "b">>,
   <<".", "p", "l">>,
   <<".", "t", "c", "l">>,
   <<".", "r">>}

\* extensions of get_comment_prefix mapped to '-- '
DashExts ==
  {<<".", "l", "u", "a">>,
   <<".", "s", "q", "l">>,
   <<".", "s", "q", "l", "i", "t", "e">>}

\* extensions of get_comment_prefix mapped to '// '
SlashExts ==
  {<<".", "j", "s">>,
   <<".", "t", "s">>,
   <<".", "t", "s", "x">>,
   <<".", "j", "s", "x">>,
   <<".", "j", "a", "v", "a">>,
   <<".", "g", "o">>,
   <<".", "r", "s">>,
   <<".", "c", "p", "p">>,
   <<".", "c">>,
   <<".", "h">>,
   <<".", "h", "p", "p">>,
   <<".", "c", "s">>,
   <<".", "p", "h", "p">>,
   <<".", "s", "w", "i", "f", "t">>,
   <<".", "k", "t">>,
   <<".", "s", "c", "a", "l", "a">>,
   <<".", "m">>}

\* extensions of get_comment_prefix mapped to '/* '
BlockExts ==
  {<<".", "c", "s", "s">>,
   <<".", "s", "c", "s", "s">>,
   <<".", "s", "a", "s", "s">>,
   <<".", "l", "e", "s", "s">>}

\* extensions of get_comment_prefix mapped to '<!-- '
MarkupExts ==
  {<<".", "h", "t", "m", "l">>,
   <<".", "x", "m", "l">>,
   <<".", "m", "d">>}

\* extensions of get_comment_prefix mapped to 'REM '
RemExts ==
  {<<".", "b", "a", "t">>}

\* extensions of get_comment_prefix mapped to '" '
QuoteExts ==
  {<<".", "v", "i", "m">>}

\* extensions of get_comment_prefix mapped to '; '
SemiExts ==
  {<<".", "e", "l">>}

\* get_comment_prefix(ext): the table is keyed by the extension with its dot
get_comment_prefix(ext) ==
  LET Prefix(e) ==
        CASE e \in HashExts   -> <<"#", " ">>
          [] e \in DashExts   -> <<"-", "-", " ">>
          [] e \in SlashExts  -> <<"/", "/", " ">>
          [] e \in BlockExts  -> <<"/", "*", " ">>
          [] e \in MarkupExts -> <<"<", "!", "-", "-", " ">>
          [] e \in RemExts    -> <<"R", "E", "M", " ">>
          [] e \in QuoteExts  -> <<"\"", " ">>
          [] e \in SemiExts   -> <<";", " ">>
          [] OTHER            -> <<"#", " ">>
  IN  Prefix(Strip(Lower(ext)))

\* get_comment_suffix(ext)
get_comment_suffix(ext) ==
  LET Suffix(e) ==
        IF e \in BlockExts THEN <<" ", "*", "/">>
        ELSE IF e \in MarkupExts THEN <<" ", "-", "-", ">">>
        ELSE <<>>
  IN  Suffix(Strip(Lower(ext)))

\* ===========================================================================
\* map_headings_to_files.py: hint extraction and content processing
\* ===========================================================================

\* the comment openers of COMMENT_PATTERNS, in table order
COMMENT_PATTERNS ==
  << <<"#">>, <<"/", "/">>, <<"-", "-">>, <<"<", "!", "-", "-">>, <<"%">>,
     <<"*">>, <<"R", "E", "M">>, <<"\"">>, <<";">> >>

HtmlOpen == <<"<", "!", "-", "-">>
HtmlClose == <<"-", "-", ">">>

\* group(1).strip() of one pattern on a right-stripped line; <<>> when the
\* pattern does not match or captures nothing
PatternCapture(line, opener) ==
  LET t == LStrip(line)
  IN  IF ~StartsWith(t, opener) THEN <<>>
      ELSE IF opener = HtmlOpen
           THEN IF Len(t) >= Len(HtmlOpen) + Len(HtmlClose) /\ EndsWith(t, HtmlClose)
                THEN Strip(SubSeq(t, Len(HtmlOpen) + 1, Len(t) - Len(HtmlClose)))
                ELSE <<>>
           ELSE Strip(Drop(t, Len(opener)))

\* extract_hint_from_line(line): found = FALSE stands for (None, None)
extract_hint_from_line(line) ==
  LET First(hits) == CHOOSE x \in hits : \A y \in hits : x <= y
      Found(l, hits) ==
        IF hits = {} THEN [found |-> FALSE, hint |-> <<>>]
        ELSE [found |-> TRUE,
              hint |-> normalize_path_string(PatternCapture(l, COMMENT_PATTERNS[First(hits)]))]
      Match(l) ==
        Found(l, {k \in 1..Len(COMMENT_PATTERNS) :
                    PatternCapture(l, COMMENT_PATTERNS[k]) # <<>>})
  IN  Match(RStrip(line))

\* "\n".join(lines[1:]).rstrip() if len(lines) > 1 else ""
BodyAfterFirstLine(lines) ==
  IF Len(lines) > 1 THEN RStrip(Join(Tail(lines), <<NL>>)) ELSE <<>>

\* extract_hint_and_body(content) -> (hint, body, has_hint)
extract_hint_and_body(content) ==
  IF content = <<>> THEN [hint |-> <<>>, body |-> <<>>, has_hint |-> FALSE]
  ELSE LET Split(lines, h) ==
             IF h.found
             THEN [hint |-> h.hint, body |-> BodyAfterFirstLine(lines), has_hint |-> TRUE]
             ELSE [hint |-> <<>>, body |-> content, has_hint |-> FALSE]
           Of(lines) ==
             IF lines = <<>> THEN [hint |-> <<>>, body |-> content, has_hint |-> FALSE]
             ELSE Split(lines, extract_hint_from_line(lines[1]))
       IN  Of(SplitLines(content))

\* format_hint_comment(file_path, file_extension)
format_hint_comment(file_path, file_extension) ==
  LET Ext(stripped) ==
        IF file_extension # <<>> THEN file_extension
        ELSE IF stripped # <<>> THEN stripped
        ELSE Lower(PathName(file_path))
  IN  get_comment_prefix(Ext(LStripSet(PathSuffix(file_path), {"."}))) \o file_path

\* process_code_block_content without its Case 3: a block with no hint is
\* returned as it came, whatever strip_hints says
ProcessWithoutAddedHint(content, target_file, strip_hints, has_existing_hint) ==
  LET Hint(lines) ==
        IF has_existing_hint /\ lines # <<>> THEN extract_hint_from_line(lines[1]).hint
        ELSE <<>>
      Processed(original_hint, body, hint_comment) ==
        IF strip_hints /\ has_existing_hint
        THEN [content |-> body, modified |-> TRUE, original_hint |-> original_hint]
        ELSE IF has_existing_hint
        THEN [content |-> hint_comment \o <<NL>> \o body, modified |-> TRUE,
              original_hint |-> original_hint]
        ELSE [content |-> content, modified |-> FALSE, original_hint |-> <<>>]
      Of(lines) ==
        Processed(Hint(lines), BodyAfterFirstLine(lines),
                  format_hint_comment(target_file,
                                      LStripSet(PathSuffix(target_file), {"."})))
  IN  Of(SplitLines(content))

\* process_code_block_content(content, target_file, strip_hints, has_existing_hint)
\* -> (processed_content, was_modified, original_hint); original_hint <<>> is None
process_code_block_content(content, target_file, strip_hints, has_existing_hint) ==
  LET Hint(lines) ==
        IF has_existing_hint /\ lines # <<>> THEN extract_hint_from_line(lines[1]).hint
        ELSE <<>>
      Processed(original_hint, body, hint_comment) ==
        IF strip_hints /\ has_existing_hint
        THEN [content |-> body, modified |-> TRUE, original_hint |-> original_hint]
        ELSE IF has_existing_hint
        THEN [content |-> hint_comment \o <<NL>> \o body, modified |-> TRUE,
              original_hint |-> original_hint]
        ELSE IF ~strip_hints
        THEN [content |-> hint_comment \o <<NL>> \o content, modified |-> TRUE,
              original_hint |-> <<>>]
        ELSE [content |-> content, modified |-> FALSE, original_hint |-> <<>>]
      Of(lines) ==
        Processed(Hint(lines), BodyAfterFirstLine(lines),
                  format_hint_comment(target_file,
                                      LStripSet(PathSuffix(target_file), {"."})))
  IN  Of(SplitLines(content))

\* ===========================================================================
\* textwrap.dedent
\* ===========================================================================

\* the leading run of spaces and tabs of a line
RECURSIVE LeadingBlank(_)
LeadingBlank(line) ==
  IF line # <<>> /\ Head(line) \in {" ", "\t"} THEN <<Head(line)>> \o LeadingBlank(Tail(line))
  ELSE <<>>

\* the longest common prefix of two strings
RECURSIVE CommonPrefix(_, _)
CommonPrefix(a, b) ==
  IF a # <<>> /\ b # <<>> /\ Head(a) = Head(b)
  THEN <<Head(a)>> \o CommonPrefix(Tail(a), Tail(b))
  ELSE <<>>

\* the margin of a list of indents
RECURSIVE Margin(_)
Margin(indents) ==
  IF Len(indents) = 1 THEN indents[1]
  ELSE CommonPrefix(indents[1], Margin(Tail(indents)))

\* textwrap.dedent(text)
dedent(text) ==
  LET Normalized(raw) ==
        [k \in 1..Len(raw) |-> IF LeadingBlank(raw[k]) = raw[k] THEN <<>> ELSE raw[k]]
      Indents(lines) == [k \in 1..Len(lines) |-> LeadingBlank(lines[k])]
      FullIndents(indents, full) == FilterSeq(indents, {indents[k] : k \in full})
      Cut(lines, full, margin) ==
        [k \in 1..Len(lines) |->
           IF k \in full THEN Drop(lines[k], Len(margin)) ELSE lines[k]]
      Dedented(lines, full) ==
        Cut(lines, full,
            IF full = {} THEN <<>> ELSE Margin(FullIndents(Indents(lines), full)))
      Of(lines) == Dedented(lines, {k \in 1..Len(lines) : lines[k] # <<>>})
  IN  Join(Of(Normalized(SplitOn(text, NL))), <<NL>>)

\* ===========================================================================
\* Python dict (insertion ordered): a sequence of [key, val] records
\* ===========================================================================

\* list(d.keys())
DictKeys(d) == [k \in 1..Len(d) |-> d[k].key]

\* key in d
DictHas(d, key) == \E k \in 1..Len(d) : d[k].key = key

\* d[key]
DictGet(d, key) == d[CHOOSE k \in 1..Len(d) : d[k].key = key].val

\* d[key] = val
DictSet(d, key, val) ==
  IF DictHas(d, key)
  THEN [k \in 1..Len(d) |-> IF d[k].key = key THEN [key |-> key, val |-> val] ELSE d[k]]
  ELSE Append(d, [key |-> key, val |-> val])

\* del d[key]
RECURSIVE DictDel(_, _)
DictDel(d, key) ==
  IF d = <<>> THEN <<>>
  ELSE IF Head(d).key = key THEN Tail(d)
  ELSE <<Head(d)>> \o DictDel(Tail(d), key)

\* d[key].append(x)
DictAppend(d, key, x) == DictSet(d, key, Append(DictGet(d, key), x))

\* list.sort(key=..., reverse=True) and heapq selection: the stable order of
\* the indices 1..n under the strict total order Before
StableOrder(n, Before(_, _)) ==
  [p \in 1..n |-> CHOOSE i \in 1..n : Cardinality({j \in 1..n : Before(j, i)}) = p - 1]

\* the list without repeated elements, first occurrences kept
RECURSIVE Dedupe(_)
Dedupe(seq) ==
  IF seq = <<>> THEN <<>>
  ELSE LET Add(front, last) == IF last \in Range(front) THEN front ELSE Append(front, last)
       IN  Add(Dedupe(SubSeq(seq, 1, Len(seq) - 1)), seq[Len(seq)])

\* [x for x in items if keep[index of x]]
RECURSIVE SelectIdx(_, _, _)
SelectIdx(items, keep, k) ==
  IF k > Len(items) THEN <<>>
  ELSE IF k \in keep THEN <<items[k]>> \o SelectIdx(items, keep, k + 1)
  ELSE SelectIdx(items, keep, k + 1)

\* ===========================================================================
\* infer_targets_from_fence_info.py
\* ===========================================================================

\* re.sub(r'\s+', ' ', text)
RECURSIVE CollapseWhitespace(_)
CollapseWhitespace(text) ==
  IF text = <<>> THEN <<>>
  ELSE IF Head(text) \in Whitespace
       THEN <<" ">> \o CollapseWhitespace(LStrip(text))
       ELSE <<Head(text)>> \o CollapseWhitespace(Tail(text))

\* normalize_string(text)
normalize_string(text) ==
  IF text = <<>> THEN <<>> ELSE CollapseWhitespace(Lower(Strip(text)))

\* the extensions get_filename_variations strips
VariationExts ==
  {<<".", "p", "y">>, <<".", "j", "s">>, <<".", "t", "s">>, <<".", "j", "s", "o", "n">>,
   <<".", "m", "d">>, <<".", "t", "x", "t">>, <<".", "y", "m", "l">>,
   <<".", "y", "a", "m", "l">>, <<".", "x", "m", "l">>, <<".", "h", "t", "m", "l">>,
   <<".", "c", "s", "s">>}

\* get_filename_variations(filename)
get_filename_variations(filename) ==
  LET Variations(n) ==
        {n, RemoveChar(RemoveChar(n, "_"), "-"), ReplaceChar(n, "_", "-"),
         ReplaceChar(n, "-", "_")}
        \cup {SubSeq(n, 1, Len(n) - Len(e)) : e \in {x \in VariationExts : EndsWith(n, x)}}
  IN  Variations(Lower(filename))

\* exact_match_candidates(info_clean, tree_entries)
exact_match_candidates(info_clean, tree_entries) ==
  SelectIdx(tree_entries,
            {k \in 1..Len(tree_entries) :
               \/ Lower(PathName(tree_entries[k])) = info_clean
               \/ Lower(tree_entries[k]) = info_clean}, 1)

\* the score partial_match_candidates gives one file path
PartialScore(info_clean, file_path) ==
  LET Score(filename_lower, filepath_lower) ==
        IF Contains(filename_lower, info_clean)
        THEN 3 + (IF StartsWith(filename_lower, info_clean) THEN 2 ELSE 0)
               + (IF Lower(PathStem(file_path)) = info_clean THEN 2 ELSE 0)
        ELSE IF Contains(filepath_lower, info_clean)
        THEN 1 + (IF \E par \in ParentNames(file_path) : Lower(par) = info_clean
                  THEN 1 ELSE 0)
        ELSE 0
  IN  Score(Lower(PathName(file_path)), Lower(file_path))
      + (IF info_clean \in get_filename_variations(PathName(file_path)) THEN 2 ELSE 0)

\* partial_match_candidates(info_clean, tree_entries): score > 0, best first
partial_match_candidates(info_clean, tree_entries) ==
  LET Sorted(scored, order) == [p \in 1..Len(scored) |-> scored[order[p]]]
      Ranked(scored, score) ==
        LET Before(j, i) == score[j] > score[i] \/ (score[j] = score[i] /\ j < i)
        IN  Sorted(scored, StableOrder(Len(scored), Before))
      Scored(scored) ==
        Ranked(scored, [k \in 1..Len(scored) |-> PartialScore(info_clean, scored[k])])
  IN  Scored(SelectIdx(tree_entries,
                       {k \in 1..Len(tree_entries) :
                          PartialScore(info_clean, tree_entries[k]) > 0}, 1))

\* validate_candidates(candidates, info_clean)
validate_candidates(candidates) ==
  Dedupe(SelectIdx(candidates,
                   {k \in 1..Len(candidates) :
                      ~(PathSuffix(candidates[k]) = <<>> /\ Len(candidates) > 1)}, 1))

\* infer_targets_from_fence_info on an info without the split step
InferWhole(info, tree_entries) ==
  IF info = <<>> \/ tree_entries = <<>> THEN <<>>
  ELSE LET Chosen(info_clean, exact) ==
             IF exact # <<>> THEN validate_candidates(exact)
             ELSE validate_candidates(partial_match_candidates(info_clean, tree_entries))
           Of(info_clean) ==
             IF info_clean = <<>> THEN <<>>
             ELSE Chosen(info_clean, exact_match_candidates(info_clean, tree_entries))
       IN  Of(normalize_string(info))

\* the first split part longer than 2 whose own inference is non-empty
RECURSIVE InferParts(_, _)
InferParts(parts, tree_entries) ==
  IF parts = <<>> THEN <<>>
  ELSE LET Found(part_candidates) ==
             IF Len(Head(parts)) > 2 /\ part_candidates # <<>>
             THEN validate_candidates(part_candidates)
             ELSE InferParts(Tail(parts), tree_entries)
       IN  Found(InferWhole(Head(parts), tree_entries))

\* infer_targets_from_fence_info(info, tree_entries)
infer_targets_from_fence_info(info, tree_entries) ==
  IF info = <<>> \/ tree_entries = <<>> THEN <<>>
  ELSE LET NonEmpty(parts) == FilterSeq(parts, Range(parts) \ {<<>>})
           Partial(info_clean, partial_matches) ==
             IF partial_matches # <<>> THEN validate_candidates(partial_matches)
             ELSE IF Contains(info_clean, <<" ">>)
             THEN InferParts(NonEmpty(SplitOn(info_clean, " ")), tree_entries)
             ELSE <<>>
           Exact(info_clean, exact_matches) ==
             IF exact_matches # <<>> THEN validate_candidates(exact_matches)
             ELSE Partial(info_clean, partial_match_candidates(info_clean, tree_entries))
           Of(info_clean) ==
             IF info_clean = <<>> THEN <<>>
             ELSE Exact(info_clean, exact_match_candidates(info_clean, tree_entries))
       IN  Of(normalize_string(info))

\* ===========================================================================
\* is_probably_file.py and the special-file table of config.py
\* ===========================================================================

\* SPECIAL_FILES
SPECIAL_FILES ==
  {
   <<".", "e", "d", "i", "t", "o", "r", "c", "o", "n", "f", "i", "g">>, <<".", "e", "n", "v">>,
   <<".", "e", "n", "v", ".", "e", "x", "a", "m", "p", "l", "e">>,
   <<".", "e", "n", "v", ".", "l", "o", "c", "a", "l">>,
   <<".", "e", "n", "v", ".", "p", "r", "o", "d", "u", "c", "t", "i", "o", "n">>,
   <<".", "e", "s", "l", "i", "n", "t", "r", "c">>,
   <<".", "g", "i", "t", "i", "g", "n", "o", "r", "e">>,
   <<".", "p", "r", "e", "t", "t", "i", "e", "r", "r", "c">>,
   <<".", "t", "r", "a", "v", "i", "s", ".", "y", "m", "l">>,
   <<"a", "p", "p", ".", "y", "a", "m", "l">>, <<"a", "u", "t", "h", "o", "r", "s">>,
   <<"b", "a", "b", "e", "l", ".", "c", "o", "n", "f", "i", "g", ".", "j", "s">>,
   <<"c", "a", "r", "g", "o", ".", "t", "o", "m", "l">>,
   <<"c", "h", "a", "n", "g", "e", "l", "o", "g">>,
   <<"c", "h", "a", "n", "g", "e", "l", "o", "g", ".", "m", "d">>,
   <<"c", "l", "o", "u", "d", "b", "u", "i", "l", "d", ".", "y", "a", "m", "l">>,
   <<"c", "o", "d", "e", "_", "o", "f", "_", "c", "o", "n", "d", "u", "c", "t">>,
   <<"c", "o", "m", "p", "o", "s", "e", "r", ".", "j", "s", "o", "n">>,
   <<"c", "o", "n", "t", "r", "i", "b", "u", "t", "i", "n", "g">>,
   <<"d", "o", "c", "k", "e", "r", "-", "c", "o", "m", "p", "o", "s", "e", ".", "y", "a", "m", "l">>,
   <<"d", "o", "c", "k", "e", "r", "-", "c", "o", "m", "p", "o", "s", "e", ".", "y", "m", "l">>,
   <<"d", "o", "c", "k", "e", "r", "f", "i", "l", "e">>,
   <<"f", "i", "r", "e", "s", "t", "o", "r", "e", ".", "r", "u", "l", "e", "s">>,
   <<"g", "e", "m", "f", "i", "l", "e">>,
   <<"g", "i", "t", "h", "u", "b", "/", "w", "o", "r", "k", "f", "l", "o", "w", "s">>,
   <<"g", "i", "t", "l", "a", "b", "-", "c", "i", ".", "y", "m", "l">>,
   <<"g", "o", ".", "m", "o", "d">>,
   <<"j", "e", "s", "t", ".", "c", "o", "n", "f", "i", "g", ".", "j", "s">>,
   <<"l", "i", "c", "e", "n", "s", "e">>, <<"l", "i", "c", "e", "n", "s", "e", ".", "m", "d">>,
   <<"m", "a", "k", "e", "f", "i", "l", "e">>,
   <<"m", "a", "n", "i", "f", "e", "s", "t", ".", "y", "m", "l">>,
   <<"p", "a", "c", "k", "a", "g", "e", ".", "j", "s", "o", "n">>,
   <<"p", "i", "p", "f", "i", "l", "e">>, <<"p", "o", "m", ".", "x", "m", "l">>,
   <<"p", "r", "o", "c", "f", "i", "l", "e">>, <<"r", "e", "a", "d", "m", "e">>,
   <<"r", "e", "a", "d", "m", "e", ".", "m", "d">>,
   <<"r", "e", "a", "d", "m", "e", ".", "t", "x", "t">>,
   <<"r", "e", "q", "u", "i", "r", "e", "m", "e", "n", "t", "s", ".", "t", "x", "t">>,
   <<"r", "o", "l", "l", "u", "p", ".", "c", "o", "n", "f", "i", "g", ".", "j", "s">>,
   <<"t", "s", "c", "o", "n", "f", "i", "g", ".", "j", "s", "o", "n">>,
   <<"v", "i", "t", "e", ".", "c", "o", "n", "f", "i", "g", ".", "j", "s">>,
   <<"w", "e", "b", "p", "a", "c", "k", ".", "c", "o", "n", "f", "i", "g", ".", "j", "s">>
  }

\* is_special_file(filename)
is_special_file(filename) ==
  IF filename = <<>> THEN FALSE
  ELSE LET Special(name_lower) ==
           \/ name_lower \in SPECIAL_FILES
           \/ StartsWith(name_lower, <<".", "e", "n", "v">>)
           \/ EndsWith(name_lower, <<".", "c", "o", "n", "f", "i", "g", ".", "j", "s">>)
           \/ /\ Contains(name_lower, <<"/">>)
              /\ \/ Contains(name_lower, <<"g","i","t","h","u","b","/","w","o","r","k","f","l","o","w","s">>)
                 \/ Contains(name_lower, <<".", "g", "i", "t", "h", "u", "b", "/">>)
       IN  Special(Strip(Lower(filename)))

\* dotfile names is_probably_file treats as directories
HiddenDirNames ==
  {<<".", "g", "i", "t">>, <<".", "v", "s", "c", "o", "d", "e">>, <<".", "i", "d", "e", "a">>,
   <<".", "v", "e", "n", "v">>,
   <<"n", "o", "d", "e", "_", "m", "o", "d", "u", "l", "e", "s">>}

\* extensionless names is_probably_file treats as files
file_like_names ==
  {<<"d","o","c","k","e","r","f","i","l","e">>, <<"m","a","k","e","f","i","l","e">>,
   <<"p","r","o","c","f","i","l","e">>, <<"l","i","c","e","n","s","e">>,
   <<"r","e","a","d","m","e">>, <<"c","h","a","n","g","e","l","o","g">>,
   <<"c","o","n","t","r","i","b","u","t","i","n","g">>, <<"a","u","t","h","o","r","s">>,
   <<"c","o","d","e","_","o","f","_","c","o","n","d","u","c","t">>}

\* the number of dots of a name
DotCount(name) == Cardinality({k \in 1..Len(name) : name[k] = "."})

\* a classification that looks at files_always before dirs_always
FilesBeforeDirs(name, files_always, dirs_always) ==
  IF name = <<>> \/ Strip(name) = <<>> THEN FALSE
  ELSE LET fa == {Lower(x) : x \in files_always}
           da == {Lower(x) : x \in dirs_always}
           Decide(nm, base, base_lower) ==
             IF EndsWith(nm, <<"/">>) \/ EndsWith(nm, <<"\\">>) THEN FALSE
             ELSE IF base_lower \in fa THEN TRUE
             ELSE IF base_lower \in da THEN FALSE
             ELSE IF is_special_file(base) THEN TRUE
             ELSE IF Contains(base, <<".">>) /\ Len(base) > 1
             THEN IF Head(base) = "." /\ DotCount(base) = 1
                  THEN base_lower \notin HiddenDirNames
                  ELSE TRUE
             ELSE base_lower \in file_like_names
           Base(nm, base) == Decide(nm, base, Lower(base))
           Of(nm) == Base(nm, PathName(nm))
       IN  Of(Strip(name))

\* is_probably_file(name, files_always, dirs_always)
is_probably_file(name, files_always, dirs_always) ==
  IF name = <<>> \/ Strip(name) = <<>> THEN FALSE
  ELSE LET fa == {Lower(x) : x \in files_always}
           da == {Lower(x) : x \in dirs_always}
           Decide(nm, base, base_lower) ==
             IF EndsWith(nm, <<"/">>) \/ EndsWith(nm, <<"\\">>) THEN FALSE
             ELSE IF base_lower \in da THEN FALSE
             ELSE IF base_lower \in fa THEN TRUE
             ELSE IF is_special_file(base) THEN TRUE
             ELSE IF Contains(base, <<".">>) /\ Len(base) > 1
             THEN IF Head(base) = "." /\ DotCount(base) = 1
                  THEN base_lower \notin HiddenDirNames
                  ELSE TRUE
             ELSE base_lower \in file_like_names
           Base(nm, base) == Decide(nm, base, Lower(base))
           Of(nm) == Base(nm, PathName(nm))
       IN  Of(Strip(name))

\* ===========================================================================
\* map_headings_to_files.py: PathLookup
\* ===========================================================================

\* an absent optional string (None); every use in the code is a truth test,
\* which None and "" both fail
None == <<>>

\* PathLookup.find_by_exact_path(path)
find_by_exact_path(file_paths, path) ==
  IF normalize_path_string(path) \in Range(file_paths)
  THEN normalize_path_string(path) ELSE None

\* PathLookup.find_by_basename(basename): basename_map built by _build_lookups
find_by_basename(file_paths, basename) ==
  SelectIdx(file_paths, {k \in 1..Len(file_paths) : PathName(file_paths[k]) = basename}, 1)

\* the keys _build_lookups files one path under in path_parts_map
TrailingPaths(file_path) ==
  LET Trailing(parts) ==
        {JoinParts(SubSeq(parts, Len(parts) - n + 1, Len(parts))) : n \in 1..Len(parts)}
  IN  Trailing(PathParts(file_path))

\* PathLookup.find_by_partial_path(partial_path)
find_by_partial_path(file_paths, partial_path) ==
  SelectIdx(file_paths,
            {k \in 1..Len(file_paths) :
               normalize_path_string(partial_path) \in TrailingPaths(file_paths[k])}, 1)

\* PathLookup.find_by_fuzzy_match(query, threshold = num/den, limit)
find_by_fuzzy_match(file_paths, query, num, den, limit) ==
  LET Top(hits, order, n) == [p \in 1..n |-> hits[order[p]]]
      Ranked(q, hits, M) ==
        LET T(k) == Len(q) + Len(hits[k])
            Before(j, i) ==
              \/ M[j] * T(i) > M[i] * T(j)
              \/ M[j] * T(i) = M[i] * T(j) /\ j < i
        IN  Top(hits, StableOrder(Len(hits), Before),
                IF Len(hits) < limit THEN Len(hits) ELSE limit)
      Scored(q, hits) ==
        Ranked(q, hits, [k \in 1..Len(hits) |-> MatchCount(Lower(q), Lower(hits[k]))])
      Of(q) ==
        Scored(q, SelectIdx(file_paths,
                            {k \in 1..Len(file_paths) :
                               SimilarityAtLeast(q, Lower(file_paths[k]), num, den)}, 1))
  IN  Of(Lower(query))

\* ===========================================================================
\* map_headings_to_files.py: warnings
\* ===========================================================================

\* one entry of a warnings list: the message template (kind), its glyph, and
\* the values the f-string interpolates
Warning(glyph, kind, subject, target, cands) ==
  [glyph |-> glyph, kind |-> kind, subject |-> subject, target |-> target, cands |-> cands]

\* ===========================================================================
\* map_headings_to_files.py: HeadingMapper
\* ===========================================================================

\* HeadingMapper._register_mapping: file_to_heading[file_path] = heading_text
_register_mapping(heading_map, file_path, heading_text) ==
  DictSet(heading_map, file_path, heading_text)

\* map_heading_to_file with the ambiguous partial match passed on to the
\* basename and fuzzy stages
MapHeadingPastAmbiguity(file_paths, heading_map, heading_text, heading_clean) ==
  LET Hit(file, kind) ==
        [file |-> file, heading |-> heading_text,
         warnings |-> IF kind = "exact" THEN <<>>
                      ELSE <<Warning("info", kind, heading_text, file, <<>>)>>,
         heading_map |-> DictSet(heading_map, file, heading_text)]
      Miss(kind, cands) ==
        [file |-> None, heading |-> None,
         warnings |-> <<Warning("warn", kind, heading_text, None, cands)>>,
         heading_map |-> heading_map]
      Fuzzy(fuzzy_matches) ==
        IF fuzzy_matches # <<>> THEN Hit(fuzzy_matches[1], "heading_fuzzy")
        ELSE Miss("heading_unmatched", <<>>)
      Basename(basename_matches) ==
        IF Len(basename_matches) = 1 THEN Hit(basename_matches[1], "heading_basename")
        ELSE Fuzzy(find_by_fuzzy_match(file_paths, heading_clean, 8, 10, 1))
      Partial(partial_matches) ==
        IF Len(partial_matches) = 1 THEN Hit(partial_matches[1], "heading_partial")
        ELSE Basename(find_by_basename(file_paths, PathName(heading_clean)))
      Exact(exact_match) ==
        IF exact_match # None THEN Hit(exact_match, "exact")
        ELSE Partial(find_by_partial_path(file_paths, heading_clean))
  IN  Exact(find_by_exact_path(file_paths, heading_clean))

\* HeadingMapper.map_heading_to_file(heading_text, heading_clean)
\* -> (mapped_file, original_heading, warnings), and the new file_to_heading
map_heading_to_file(file_paths, heading_map, heading_text, heading_clean) ==
  LET Hit(file, kind) ==
        [file |-> file, heading |-> heading_text,
         warnings |-> IF kind = "exact" THEN <<>>
                      ELSE <<Warning("info", kind, heading_text, file, <<>>)>>,
         heading_map |-> _register_mapping(heading_map, file, heading_text)]
      Miss(kind, cands) ==
        [file |-> None, heading |-> None,
         warnings |-> <<Warning("warn", kind, heading_text, None, cands)>>,
         heading_map |-> heading_map]
      Fuzzy(fuzzy_matches) ==
        IF fuzzy_matches # <<>> THEN Hit(fuzzy_matches[1], "heading_fuzzy")
        ELSE Miss("heading_unmatched", <<>>)
      Basename(basename_matches) ==
        IF Len(basename_matches) = 1 THEN Hit(basename_matches[1], "heading_basename")
        ELSE Fuzzy(find_by_fuzzy_match(file_paths, heading_clean, 8, 10, 1))
      Partial(partial_matches) ==
        IF Len(partial_matches) = 1 THEN Hit(partial_matches[1], "heading_partial")
        ELSE IF Len(partial_matches) > 1
        THEN Miss("heading_ambiguous", partial_matches)
        ELSE Basename(find_by_basename(file_paths, PathName(heading_clean)))
      Exact(exact_match) ==
        IF exact_match # None THEN Hit(exact_match, "exact")
        ELSE Partial(find_by_partial_path(file_paths, heading_clean))
  IN  Exact(find_by_exact_path(file_paths, heading_clean))

\* ===========================================================================
\* map_headings_to_files.py: FenceBlockProcessor
\* The processor's fields are the record [code_map, unassigned, warnings];
\* each method gives the fields after the call and its return value (ret).
\* ===========================================================================

\* the hint messages _assign_to_file adds when the content was modified
ModifiedWarnings(p, target_file, strip_hints) ==
  IF ~p.modified THEN <<>>
  ELSE IF strip_hints /\ p.original_hint # None
  THEN <<Warning("info", "stripped_hint", p.original_hint, None, <<>>)>>
  ELSE IF p.original_hint # None
  THEN <<Warning("info", "replaced_hint", p.original_hint, target_file, <<>>)>>
  ELSE <<>>

\* the duplicate-hint message of _assign_to_file
DuplicateWarnings(code_map, target_file, hb, strip_hints) ==
  IF DictGet(code_map, target_file) = <<>> THEN <<>>
  ELSE LET Similar(last) ==
             IF last.has_hint /\ hb.has_hint /\ are_strings_similar(last.hint, hb.hint)
                /\ ~strip_hints
             THEN <<Warning("warn", "similar_hints", None, target_file, <<>>)>>
             ELSE <<>>
           Last(blocks) == Similar(extract_hint_and_body(blocks[Len(blocks)]))
       IN  Last(DictGet(code_map, target_file))

\* the block _assign_to_file stores for content
StoredBlock(content, target_file, strip_hints) ==
  process_code_block_content(content, target_file, strip_hints,
                             extract_hint_and_body(content).has_hint).content

\* an assignment that puts the block at the front of the list
AssignAtFront(fp, target_file, content, match_type, strip_hints) ==
  IF ~DictHas(fp.code_map, target_file) THEN [fp EXCEPT !.ret = FALSE]
  ELSE [fp EXCEPT !.code_map = DictSet(fp.code_map, target_file,
                                       <<content>> \o DictGet(fp.code_map, target_file)),
                  !.ret = TRUE]

\* FenceBlockProcessor._assign_to_file(target_file, content, match_type)
_assign_to_file(fp, target_file, content, match_type, strip_hints) ==
  IF ~DictHas(fp.code_map, target_file) THEN [fp EXCEPT !.ret = FALSE]
  ELSE LET Assigned(hb, p) ==
             [code_map |-> DictAppend(fp.code_map, target_file, p.content),
              unassigned |-> fp.unassigned,
              warnings |-> fp.warnings
                           \o ModifiedWarnings(p, target_file, strip_hints)
                           \o DuplicateWarnings(fp.code_map, target_file, hb, strip_hints)
                           \o <<Warning("info", match_type,
                                        IF ~strip_hints THEN p.original_hint ELSE None,
                                        target_file, <<>>)>>,
              ret |-> TRUE]
           Processed(hb) ==
             Assigned(hb, process_code_block_content(content, target_file, strip_hints,
                                                     hb.has_hint))
       IN  Processed(extract_hint_and_body(content))

\* the ambiguous outcome: a warning naming the candidates, block to unassigned
KeepAmbiguous(fp, kind, subject, cands, fence_content) ==
  [code_map |-> fp.code_map,
   unassigned |-> Append(fp.unassigned, fence_content),
   warnings |-> Append(fp.warnings, Warning("warn", kind, subject, None, cands)),
   ret |-> TRUE]

\* _process_with_fence_info taking the first of several candidates instead of
\* keeping the block unassigned
PickFirstCandidate(fp, file_paths, fence_info, fence_content, strip_hints) ==
  LET Inferred(candidates) ==
        IF Len(candidates) >= 1
        THEN _assign_to_file(fp, candidates[1], fence_content, "inferred", strip_hints)
        ELSE [fp EXCEPT !.ret = FALSE]
      Basename(candidates, basename_matches) ==
        IF Len(basename_matches) = 1
        THEN _assign_to_file(fp, basename_matches[1], fence_content, "exact_basename",
                             strip_hints)
        ELSE Inferred(candidates)
  IN  Basename(infer_targets_from_fence_info(fence_info, DictKeys(fp.code_map)),
               find_by_basename(file_paths, PathName(fence_info)))

\* FenceBlockProcessor._process_with_fence_info(fence_info, fence_content)
_process_with_fence_info(fp, file_paths, fence_info, fence_content, strip_hints) ==
  LET Inferred(candidates) ==
        IF Len(candidates) = 1
        THEN _assign_to_file(fp, candidates[1], fence_content, "inferred", strip_hints)
        ELSE IF Len(candidates) > 1
        THEN KeepAmbiguous(fp, "ambiguous_fence_info", fence_info, candidates, fence_content)
        ELSE [fp EXCEPT !.ret = FALSE]
      Basename(candidates, basename_matches) ==
        IF Len(basename_matches) = 1
        THEN _assign_to_file(fp, basename_matches[1], fence_content, "exact_basename",
                             strip_hints)
        ELSE Inferred(candidates)
  IN  Basename(infer_targets_from_fence_info(fence_info, DictKeys(fp.code_map)),
               find_by_basename(file_paths, PathName(fence_info)))

\* FenceBlockProcessor._process_with_hint(hint, fence_content)
_process_with_hint(fp, file_paths, hint, fence_content, strip_hints) ==
  LET Partial(partial_matches) ==
        IF Len(partial_matches) = 1
        THEN _assign_to_file(fp, partial_matches[1], fence_content, "hint_partial",
                             strip_hints)
        ELSE IF Len(partial_matches) > 1
        THEN KeepAmbiguous(fp, "ambiguous_hint", hint, partial_matches, fence_content)
        ELSE [fp EXCEPT !.ret = FALSE]
      Exact(exact_match) ==
        IF exact_match # None
        THEN _assign_to_file(fp, exact_match, fence_content, "hint_exact", strip_hints)
        ELSE Partial(find_by_partial_path(file_paths, hint))
  IN  Exact(find_by_exact_path(file_paths, hint))

\* FenceBlockProcessor.process_fence_block(fence_info, fence_content, current_file)
process_fence_block(fp, file_paths, fence_info, fence_content, current_file, strip_hints) ==
  IF current_file # None /\ DictHas(fp.code_map, current_file)
  THEN _assign_to_file(fp, current_file, fence_content, "current", strip_hints)
  ELSE IF fence_info # <<>>
  THEN _process_with_fence_info(fp, file_paths, fence_info, fence_content, strip_hints)
  ELSE LET Hinted(hint) ==
             IF hint # <<>>
             THEN _process_with_hint(fp, file_paths, hint, fence_content, strip_hints)
             ELSE [code_map |-> fp.code_map,
                   unassigned |-> Append(fp.unassigned, fence_content),
                   warnings |-> Append(fp.warnings,
                                       Warning("warn", "no_info_hint", None, None, <<>>)),
                   ret |-> FALSE]
       IN  Hinted(extract_hint_and_body(fence_content).hint)


\* ===========================================================================
\* Inputs: bounded sets of trees, headings, fences and paragraphs
\* ===========================================================================

\* the most token groups (one heading, fence, paragraph or other block each)
\* a Markdown document holds
MaxGroups == 3

P_a == <<"a">>
P_b == <<"b">>
P_a_u == <<"a", "/", "u", ".", "p", "y">>
P_b_u == <<"b", "/", "u", ".", "p", "y">>
P_b_U == <<"b", "/", "U", ".", "p", "y">>
S_u_py == <<"u", ".", "p", "y">>
S_U_py == <<"U", ".", "p", "y">>
S_zz == <<"z", "z">>
S_u == <<"u">>
S_go == <<"g", "o">>
S_p == <<"p">>
S_FileStructure == <<"F","i","l","e"," ","S","t","r","u","c","t","u","r","e">>

\* tree entry lists as parse_ascii_tree_block returns them (directories included)
TreeAmbiguous == <<P_a, P_a_u, P_b, P_b_u>>
TreeMixed == <<P_a, P_a_u, P_b, P_b_U>>
Trees == {TreeAmbiguous, TreeMixed}

HeadingTexts == {S_FileStructure, P_a_u, S_u_py, S_zz}

\* raw fence contents, as the tokenizer gives them (a trailing newline)
C_plain == <<"x", NL>>
C_hint_short == <<"#", " ", "u", ".", "p", "y", NL, "x", NL>>
C_hint_full == <<"#", " ", "a", "/", "u", ".", "p", "y", NL, "x", NL>>
C_hint_other == <<"#", " ", "z", "z", NL, "x", NL>>
C_hint_only == <<"#", " ", "u", ".", "p", "y", NL>>
C_indented == <<" ", " ", "y", NL>>

\* fences as (info, content)
Fences ==
  { <<None, C_plain>>, <<None, C_hint_short>>, <<None, C_hint_full>>, <<None, C_hint_other>>,
    <<None, C_hint_only>>, <<None, C_indented>>,
    <<S_u, C_plain>>, <<S_U_py, C_plain>>, <<S_go, C_plain>>, <<S_u, C_hint_short>> }

ParagraphTexts == {S_p}

\* ===========================================================================
\* Tokens (markdown_it.token.Token): type, content, info; corrupt marks a
\* content that is not a string
\* ===========================================================================

Token(type, content, info, corrupt) ==
  [type |-> type, content |-> content, info |-> info, corrupt |-> corrupt]

HeadingGroup(text, corrupt) ==
  <<Token("heading_open", <<>>, <<>>, FALSE), Token("inline", text, <<>>, corrupt),
    Token("heading_close", <<>>, <<>>, FALSE)>>

FenceGroup(info, content, corrupt) == <<Token("fence", content, info, corrupt)>>

ParagraphGroup(text, corrupt) ==
  <<Token("paragraph_open", <<>>, <<>>, FALSE), Token("inline", text, <<>>, corrupt),
    Token("paragraph_close", <<>>, <<>>, FALSE)>>

OtherGroup == <<Token("hr", <<>>, <<>>, FALSE)>>

\* what the tokenizer emits for one block of the document
Groups ==
  {HeadingGroup(t, FALSE) : t \in HeadingTexts}
  \cup {FenceGroup(f[1], f[2], FALSE) : f \in Fences}
  \cup {ParagraphGroup(t, FALSE) : t \in ParagraphTexts}
  \cup {OtherGroup}
  \cup {HeadingGroup(<<>>, TRUE), FenceGroup(<<>>, <<>>, TRUE), ParagraphGroup(<<>>, TRUE)}

\* ===========================================================================
\* map_headings_to_files: the loop over the tokens.  The state of a call is
\* the record e: tokens, i, the locals current_file, current_heading and
\* skip_next_fence_for_file_structure, PathLookup.file_paths, code_map,
\* FenceBlockProcessor's unassigned_blocks and warnings, HeadingMapper's
\* file_to_heading (heading_map), and the argument strip_hints.
\* ===========================================================================

\* the code_map map_headings_to_files starts from: one empty list per entry
\* whose name is_probably_file accepts
RECURSIVE InitialCodeMap(_, _, _)
InitialCodeMap(entries, fa, da) ==
  IF entries = <<>> THEN <<>>
  ELSE LET Add(rest, e) ==
             IF is_probably_file(PathName(e), fa, da) THEN DictSet(rest, e, <<>>) ELSE rest
       IN  Add(InitialCodeMap(SubSeq(entries, 1, Len(entries) - 1), fa, da),
               entries[Len(entries)])

\* the state of the call when the loop starts
LoopStart(toks, tree, fa, da, strip) ==
  LET Start(code_map) ==
        [tokens |-> toks, i |-> 1, current_file |-> None, current_heading |-> None,
         skip_next_fence_for_file_structure |-> FALSE,
         file_paths |-> DictKeys(code_map),
         code_map |-> code_map, unassigned |-> <<>>, warnings |-> <<>>,
         heading_map |-> <<>>, strip_hints |-> strip]
  IN  Start(InitialCodeMap(tree, fa, da))

\* tokens[i + 1] if (i + 1) < n else None, as a token or the absent token
NoToken == Token("", <<>>, <<>>, FALSE)
Lookahead(e) == IF e.i + 1 <= Len(e.tokens) THEN e.tokens[e.i + 1] ELSE NoToken

\* inline.content.strip() if inline and inline.type == "inline" else ""
InlineText(e) ==
  LET Text(inline) == IF inline.type = "inline" THEN Strip(inline.content) ELSE <<>>
  IN  Text(Lookahead(e))

\* the paragraph branch is taken: a paragraph_open under a mapped heading
ParagraphTaken(e) ==
  /\ e.tokens[e.i].type = "paragraph_open"
  /\ e.current_file # None /\ DictHas(e.code_map, e.current_file)

\* the token at i makes the loop body raise: a content that is not a string
TokenRaises(e) ==
  \/ e.tokens[e.i].type = "fence" /\ e.tokens[e.i].corrupt
  \/ e.tokens[e.i].type = "heading_open" /\ Lookahead(e).type = "inline" /\ Lookahead(e).corrupt
  \/ ParagraphTaken(e) /\ Lookahead(e).type = "inline" /\ Lookahead(e).corrupt

\* the heading branch of the loop
HeadingBranch(e) ==
  LET Mapped(m) ==
        [e EXCEPT !.current_file = m.file, !.current_heading = m.heading,
                  !.warnings = e.warnings \o m.warnings, !.heading_map = m.heading_map,
                  !.i = e.i + 1]
      Cleaned(heading_text, heading_clean) ==
        IF Lower(heading_clean) = Lower(S_FileStructure)
        THEN [e EXCEPT !.current_file = None, !.current_heading = None,
                       !.skip_next_fence_for_file_structure = TRUE, !.i = e.i + 1]
        ELSE Mapped(map_heading_to_file(e.file_paths, e.heading_map, heading_text,
                                        heading_clean))
      Of(heading_text) ==
        Cleaned(heading_text, clean_markdown_formatting(normalize_path_string(heading_text)))
  IN  Of(InlineText(e))

\* textwrap.dedent(tok.content).rstrip().replace(r"\\```", r"```")
FenceContent(tok) ==
  ReplaceAll(RStrip(dedent(tok.content)),
             <<"\\", "\\", Backtick, Backtick, Backtick>>,
             <<Backtick, Backtick, Backtick>>)

\* the fence branch: the fence after File Structure is consumed, any other
\* goes to process_fence_block
FenceBranch(e) ==
  IF e.skip_next_fence_for_file_structure
  THEN [e EXCEPT !.skip_next_fence_for_file_structure = FALSE, !.i = e.i + 1]
  ELSE LET Processed(fp) ==
             [e EXCEPT !.code_map = fp.code_map, !.unassigned = fp.unassigned,
                       !.warnings = fp.warnings, !.i = e.i + 1]
       IN  Processed(process_fence_block(
                       [code_map |-> e.code_map, unassigned |-> e.unassigned,
                        warnings |-> e.warnings, ret |-> FALSE],
                       e.file_paths, Strip(e.tokens[e.i].info), FenceContent(e.tokens[e.i]),
                       e.current_file, e.strip_hints))

\* the index after the paragraph_close that follows i
AfterParagraphClose(e) ==
  LET After(closes) ==
        IF closes = {} THEN Len(e.tokens) + 1
        ELSE (CHOOSE j \in closes : \A k \in closes : j <= k) + 1
  IN  After({j \in (e.i + 1)..Len(e.tokens) : e.tokens[j].type = "paragraph_close"})

\* the paragraph branch: a paragraph under a mapped heading is content
ParagraphBranch(e) ==
  LET Added(para_text, blocks) ==
        [e EXCEPT !.code_map =
                    IF para_text # <<>> /\ (blocks = <<>> \/ blocks[Len(blocks)] # para_text)
                    THEN DictAppend(e.code_map, e.current_file, para_text)
                    ELSE e.code_map,
                  !.i = AfterParagraphClose(e)]
  IN  Added(InlineText(e), DictGet(e.code_map, e.current_file))

\* every other token, and a paragraph with no mapped heading: i += 1
OtherBranch(e) == [e EXCEPT !.i = e.i + 1]

\* an except clause that also forgets the current heading
ExceptResetsState(e) ==
  [e EXCEPT !.i = e.i + 1, !.current_file = None, !.current_heading = None]

\* the except clause of the loop: log, i += 1
ExceptBranch(e) == [e EXCEPT !.i = e.i + 1]

\* one pass through the body of the while loop
LoopBody(e) ==
  IF TokenRaises(e) THEN ExceptBranch(e)
  ELSE IF e.tokens[e.i].type = "heading_open" THEN HeadingBranch(e)
  ELSE IF e.tokens[e.i].type = "fence" THEN FenceBranch(e)
  ELSE IF ParagraphTaken(e) THEN ParagraphBranch(e)
  ELSE OtherBranch(e)

\* the while loop, to its end
RECURSIVE Loop(_)
Loop(e) == IF e.i > Len(e.tokens) THEN e ELSE Loop(LoopBody(e))

\* map_headings_to_files(tokens, tree_files, files_always, dirs_always,
\* strip_hints) -> (code_map, unassigned, warnings, heading_map)
map_headings_to_files(toks, tree, fa, da, strip) ==
  IF toks = <<>> \/ tree = <<>>
  THEN [code_map |-> <<>>, unassigned |-> <<>>, warnings |-> <<>>, heading_map |-> <<>>]
  ELSE LET Returned(e) ==
             [code_map |-> e.code_map, unassigned |-> e.unassigned, warnings |-> e.warnings,
              heading_map |-> e.heading_map]
       IN  Returned(Loop(LoopStart(toks, tree, fa, da, strip)))

\* ===========================================================================
\* difflib.get_close_matches and string order
\* ===========================================================================

\* the characters of the inputs, in code point order
CodePoints ==
  <<"\t", NL, " ", "!", "\"", "#", "$", "%", "&", "'", "(", ")", "*", "+", ",", "-", ".", "/",
    "0", "1", "2", "3", "4", "5", "6", "7", "8", "9", ":", ";", "<", "=", ">", "?", "@",
    "A", "B", "C", "D", "E", "F", "G", "H", "I", "J", "K", "L", "M", "N", "O", "P", "Q", "R",
    "S", "T", "U", "V", "W", "X", "Y", "Z", "[", "\\", "]", "^", "_", Backtick,
    "a", "b", "c", "d", "e", "f", "g", "h", "i", "j", "k", "l", "m", "n", "o", "p", "q", "r",
    "s", "t", "u", "v", "w", "x", "y", "z", "{", "|", "}", "~">>

\* ord(c), up to the order of the code points
Ord(c) == CHOOSE k \in 1..Len(CodePoints) : CodePoints[k] = c

\* a < b for two str
RECURSIVE StrLess(_, _)
StrLess(a, b) ==
  IF b = <<>> THEN FALSE
  ELSE IF a = <<>> THEN TRUE
  ELSE IF a[1] = b[1] THEN StrLess(Tail(a), Tail(b))
  ELSE Ord(a[1]) < Ord(b[1])

\* difflib.get_close_matches(word, possibilities, n, cutoff = num/den): the
\* possibilities x with SequenceMatcher(a = x, b = word).ratio() >= cutoff,
\* the n largest by (ratio, x)
get_close_matches(word, possibilities, n, num, den) ==
  LET Top(hits, order, m) == [p \in 1..m |-> hits[order[p]]]
      Ranked(hits, M) ==
        LET T(k) == Len(hits[k]) + Len(word)
            Before(j, k) ==
              \/ M[j] * T(k) > M[k] * T(j)
              \/ M[j] * T(k) = M[k] * T(j) /\ StrLess(hits[k], hits[j])
              \/ M[j] * T(k) = M[k] * T(j) /\ hits[k] = hits[j] /\ j < k
        IN  Top(hits, StableOrder(Len(hits), Before), IF Len(hits) < n THEN Len(hits) ELSE n)
      Scored(hits) == Ranked(hits, [k \in 1..Len(hits) |-> MatchCount(hits[k], word)])
  IN  Scored(SelectIdx(possibilities,
                       {k \in 1..Len(possibilities) :
                          RatioAtLeast(possibilities[k], word, num, den)}, 1))

\* ===========================================================================
\* try_rescue_unassigned.py
\* ===========================================================================

\* the comment openers of the pattern of extract_hint_from_code, in order
RescueOpeners == << <<"/", "/">>, <<"#">>, <<"<", "!", "-", "-">>, <<"/", "*">> >>

\* the closers the pattern accepts at the end of the line
RescueClosers == {<<"-", "-", ">">>, <<"*", "/">>}

\* re.match of the hint pattern on a stripped line: whether it matches, and
\* group(2), the text between the opener and an optional closer
RescueCapture(line) ==
  LET Unclosed(rest, c) == RStrip(SubSeq(rest, 1, Len(rest) - Len(c)))
      Closed(rest, closed) ==
        IF closed = {} THEN [matched |-> TRUE, text |-> rest]
        ELSE [matched |-> TRUE, text |-> Unclosed(rest, CHOOSE x \in closed : TRUE)]
      Rest(rest) == Closed(rest, {c \in RescueClosers : EndsWith(rest, c)})
      Opened(k) == Rest(LStrip(Drop(line, Len(RescueOpeners[k]))))
      Of(hits) ==
        IF hits = {} THEN [matched |-> FALSE, text |-> <<>>]
        ELSE Opened(CHOOSE x \in hits : \A y \in hits : x <= y)
  IN  Of({k \in 1..Len(RescueOpeners) : StartsWith(line, RescueOpeners[k])})

\* s.strip().lstrip("./").replace('\\', '/')
CleanHint(s) == ReplaceChar(LStripSet(Strip(s), {".", "/"}), "\\", "/")

\* extract_hint_from_code(code) -> (hint, line_number); (None, -1) when no
\* line of the first two holds a hint
extract_hint_from_code(code) ==
  LET HintAt(lines, k) == CleanHint(RescueCapture(Strip(lines[k])).text)
      At(lines, k) == [hint |-> HintAt(lines, k), line_num |-> k - 1]
      Found(lines, found) ==
        IF Strip(code) = <<>> \/ found = {} THEN [hint |-> None, line_num |-> -1]
        ELSE At(lines, CHOOSE x \in found : \A y \in found : x <= y)
      Of(lines) ==
        Found(lines, {k \in 1..Len(lines) :
                        /\ k <= 2 /\ RescueCapture(Strip(lines[k])).matched
                        /\ HintAt(lines, k) # <<>>})
  IN  Of(SplitLines(code))

\* find_matching_files(hint, code_map, fallback_level)
find_matching_files(hint, code_map, fallback_level) ==
  LET Substring(keys, substring) ==
        IF fallback_level \in {"medium", "high"} /\ substring # <<>> THEN substring
        ELSE IF fallback_level \in {"medium", "high"}
        THEN get_close_matches(hint, keys, 3, 7, 10)
        ELSE <<>>
      Suffix(keys, suffix) ==
        IF DictHas(code_map, hint) THEN <<hint>>
        ELSE IF suffix # <<>> THEN suffix
        ELSE Substring(keys,
                       SelectIdx(keys, {k \in 1..Len(keys) : Contains(keys[k], hint)}, 1))
      Of(keys) ==
        Suffix(keys, SelectIdx(keys, {k \in 1..Len(keys) : EndsWith(keys[k], hint)}, 1))
  IN  Of(DictKeys(code_map))

\* are_hints_similar(hint1, hint2) with the default threshold 0.8
are_hints_similar(hint1, hint2) == SimilarityAtLeast(hint1, hint2, 8, 10)

\* "\n".join(lines[:k] + lines[k + 1:]).rstrip(), k counted from 0
WithoutLine(code, k) ==
  LET Without(lines) ==
        RStrip(Join(SubSeq(lines, 1, k) \o SubSeq(lines, k + 2, Len(lines)), <<NL>>))
  IN  Without(SplitLines(code))

\* code_map[target][-1].splitlines()[0] raises IndexError: the last block of
\* the target is the empty string
LastBlockRaises(code_map, target) ==
  LET Raises(blocks) == blocks # <<>> /\ SplitLines(blocks[Len(blocks)]) = <<>>
  IN  Raises(DictGet(code_map, target))

\* the "multiple code blocks merged" message of the duplicate check
MergedWarnings(code_map, target) ==
  LET Merged(blocks) ==
        IF blocks # <<>> /\ are_hints_similar(SplitLines(blocks[Len(blocks)])[1], target)
        THEN <<Warning("warn", "merged", None, target, <<>>)>>
        ELSE <<>>
  IN  Merged(DictGet(code_map, target))

\* a rescue that puts the body in front of the blocks the target holds
InsertRescued(r, target, body, kind, subject) ==
  IF body = <<>> THEN [code_map |-> r.code_map, warnings |-> r.warnings,
                       ret |-> FALSE, raised |-> FALSE]
  ELSE IF LastBlockRaises(r.code_map, target)
  THEN [code_map |-> r.code_map, warnings |-> r.warnings, ret |-> FALSE, raised |-> TRUE]
  ELSE [code_map |-> DictSet(r.code_map, target, <<body>> \o DictGet(r.code_map, target)),
        warnings |-> r.warnings \o MergedWarnings(r.code_map, target)
                     \o <<Warning("info", kind, subject, target, <<>>)>>,
        ret |-> TRUE, raised |-> FALSE]

\* the duplicate check, the append and the message that follow "if body:";
\* r is the record [code_map, warnings]; ret is the value returned and
\* raised says the duplicate check raised before anything was appended
AppendRescued(r, target, body, kind, subject) ==
  IF body = <<>> THEN [code_map |-> r.code_map, warnings |-> r.warnings,
                       ret |-> FALSE, raised |-> FALSE]
  ELSE IF LastBlockRaises(r.code_map, target)
  THEN [code_map |-> r.code_map, warnings |-> r.warnings, ret |-> FALSE, raised |-> TRUE]
  ELSE [code_map |-> DictAppend(r.code_map, target, body),
        warnings |-> r.warnings \o MergedWarnings(r.code_map, target)
                     \o <<Warning("info", kind, subject, target, <<>>)>>,
        ret |-> TRUE, raised |-> FALSE]

\* the body process_hint_match stores for code
HintMatchBody(code, hint, hint_line_num, target, strip_hints) ==
  IF hint # <<>> /\ are_hints_similar(hint, target)
  THEN IF get_path_specificity(hint) >= get_path_specificity(target) THEN code
       ELSE IF strip_hints THEN WithoutLine(code, hint_line_num)
       ELSE get_comment_prefix(Lower(PathSuffix(target))) \o target
            \o get_comment_suffix(Lower(PathSuffix(target))) \o <<NL>> \o LStrip(code)
  ELSE IF strip_hints /\ hint_line_num >= 0 THEN WithoutLine(code, hint_line_num)
  ELSE code

\* process_hint_match appending the block and then returning False
HintMatchWithoutReturn(r, code, hint, hint_line_num, target, strip_hints) ==
  LET a == AppendRescued([code_map |-> r.code_map, warnings |-> r.warnings],
                         target, HintMatchBody(code, hint, hint_line_num, target, strip_hints),
                         "rescued_hint", hint)
  IN  [a EXCEPT !.ret = FALSE, !.raised = FALSE]

\* process_hint_match(code, hint, hint_line_num, target, code_map,
\* strip_hints, rescued_warnings); its except clause catches the IndexError
\* of the duplicate check and returns False
process_hint_match(r, code, hint, hint_line_num, target, strip_hints) ==
  LET replaced ==
        IF /\ hint # <<>> /\ are_hints_similar(hint, target)
           /\ get_path_specificity(hint) < get_path_specificity(target)
        THEN <<Warning("info", "replaced_more_specific", hint, target, <<>>)>>
        ELSE <<>>
      a == AppendRescued([code_map |-> r.code_map, warnings |-> r.warnings \o replaced],
                         target, HintMatchBody(code, hint, hint_line_num, target, strip_hints),
                         "rescued_hint", hint)
  IN  [a EXCEPT !.raised = FALSE]

\* try_basename_match(code, hint, hint_line_num, code_map, strip_hints,
\* rescued_warnings)
try_basename_match(r, code, hint, hint_line_num, strip_hints) ==
  LET body == IF strip_hints /\ hint_line_num >= 0 THEN WithoutLine(code, hint_line_num)
              ELSE code
      Matched(basename_matches) ==
        IF Len(basename_matches) = 1
        THEN AppendRescued(r, basename_matches[1], body, "basename_assigned", hint)
        ELSE [code_map |-> r.code_map, warnings |-> r.warnings, ret |-> FALSE,
              raised |-> FALSE]
      Of(keys, name) ==
        Matched(SelectIdx(keys, {k \in 1..Len(keys) : PathName(keys[k]) = name}, 1))
  IN  Of(DictKeys(r.code_map), PathName(hint))

\* "\n".join(lines[1:]).rstrip() if strip_hints else code
AfterFirstLine(code, strip_hints) ==
  IF strip_hints THEN RStrip(Join(Tail(SplitLines(code)), <<NL>>)) ELSE code

\* the loop of try_heading_match from the k-th item of heading_map
RECURSIVE HeadingMatchFrom(_, _, _, _, _)
HeadingMatchFrom(r, code, heading_map, strip_hints, k) ==
  IF k > Len(heading_map)
  THEN [code_map |-> r.code_map, warnings |-> r.warnings, ret |-> FALSE, raised |-> FALSE]
  ELSE LET target == heading_map[k].key
           heading == heading_map[k].val
           Matches(first_line) ==
             /\ DictHas(r.code_map, target)
             /\ (StartsWith(first_line, heading) \/ Contains(first_line, CleanHint(heading)))
           Appended(a) ==
             IF a.ret \/ a.raised THEN a
             ELSE HeadingMatchFrom(r, code, heading_map, strip_hints, k + 1)
       IN  IF Matches(Strip(SplitLines(code)[1]))
           THEN Appended(AppendRescued(r, target, AfterFirstLine(code, strip_hints),
                                       "rescued_heading", heading))
           ELSE HeadingMatchFrom(r, code, heading_map, strip_hints, k + 1)

\* try_heading_match(code, heading_map, code_map, strip_hints, rescued_warnings)
try_heading_match(r, code, heading_map, strip_hints) ==
  IF SplitLines(code) = <<>>
  THEN [code_map |-> r.code_map, warnings |-> r.warnings, ret |-> FALSE, raised |-> FALSE]
  ELSE HeadingMatchFrom(r, code, heading_map, strip_hints, 1)

\* ===========================================================================
\* resolve_conflict_interactive.py
\* ===========================================================================

\* what the user types at the prompt: a number, s (skip) or a (abort)
Answers == {"1", "2", "3", "s", "a"}

\* int(choice) of a numeric answer
AnswerNumber(choice) == CASE choice = "1" -> 1 [] choice = "2" -> 2 [] choice = "3" -> 3

\* resolve_conflict_interactive(hint, candidates) with the user's answer:
\* selected is the return value (None on skip), aborted the sys.exit(1);
\* valid is FALSE for a number out of range, which prompts again
resolve_conflict_interactive(hint, candidates, choice) ==
  IF hint = <<>> \/ candidates = <<>>
  THEN [selected |-> None, aborted |-> FALSE, valid |-> TRUE]
  ELSE IF Len(candidates) = 1
  THEN [selected |-> candidates[1], aborted |-> FALSE, valid |-> TRUE]
  ELSE IF choice = "s" THEN [selected |-> None, aborted |-> FALSE, valid |-> TRUE]
  ELSE IF choice = "a" THEN [selected |-> None, aborted |-> TRUE, valid |-> TRUE]
  ELSE IF AnswerNumber(choice) <= Len(candidates)
  THEN [selected |-> candidates[AnswerNumber(choice)], aborted |-> FALSE, valid |-> TRUE]
  ELSE [selected |-> None, aborted |-> FALSE, valid |-> FALSE]

\* max(candidates, key) / min(candidates, key): the first extreme element
FirstMax(candidates, Key(_)) ==
  candidates[CHOOSE k \in 1..Len(candidates) :
               /\ \A j \in 1..Len(candidates) : Key(candidates[j]) <= Key(candidates[k])
               /\ \A j \in 1..(k - 1) : Key(candidates[j]) < Key(candidates[k])]

FirstMin(candidates, Key(_)) ==
  candidates[CHOOSE k \in 1..Len(candidates) :
               /\ \A j \in 1..Len(candidates) : Key(candidates[j]) >= Key(candidates[k])
               /\ \A j \in 1..(k - 1) : Key(candidates[j]) > Key(candidates[k])]

Strategies == {"first", "longest", "shortest", "most_specific", "skip"}

\* a batch resolution in which skip picks like first
BatchSkipPicksFirst(hint, candidates, strategy) ==
  IF candidates = <<>> THEN None ELSE candidates[1]

\* resolve_conflict_batch(hint, candidates, strategy)
resolve_conflict_batch(hint, candidates, strategy) ==
  LET Segments(x) == Len(SplitOn(x, "/"))
  IN  IF candidates = <<>> THEN None
      ELSE IF Len(candidates) = 1 THEN candidates[1]
      ELSE CASE strategy = "first" -> candidates[1]
             [] strategy = "longest" -> FirstMax(candidates, Len)
             [] strategy = "shortest" -> FirstMin(candidates, Len)
             [] strategy = "most_specific" -> FirstMax(candidates, Segments)
             [] strategy = "skip" -> None
             [] OTHER -> candidates[1]

\* ===========================================================================
\* try_rescue_unassigned: the body of the loop over the unassigned blocks.
\* r is the record [code_map, still_unassigned, warnings]; a stage gives the
\* record after it and a status: "done" (continue with the next block),
\* "fall" (go on to the next stage), "raised" (an exception left the stage),
\* "aborted" (the user aborted: sys.exit), "invalid" (the answer is not one
\* the prompt accepts)
\* ===========================================================================

Stage(code_map, still, warnings, status) ==
  [code_map |-> code_map, still_unassigned |-> still, warnings |-> warnings,
   status |-> status]

\* Steps 1 and 2: the hint in the first two lines and the files it matches
HintStage(r, code, strip_hints, interactive, fallback_level, choice) ==
  LET Processed(p) ==
        Stage(p.code_map, r.still_unassigned, p.warnings, IF p.ret THEN "done" ELSE "fall")
      Matched(h, target) ==
        Processed(process_hint_match(r, code, h.hint, h.line_num, target, strip_hints))
      Selected(h, sel) ==
        IF sel.aborted THEN Stage(r.code_map, r.still_unassigned, r.warnings, "aborted")
        ELSE IF ~sel.valid THEN Stage(r.code_map, r.still_unassigned, r.warnings, "invalid")
        ELSE IF sel.selected # None THEN Matched(h, sel.selected)
        ELSE Stage(r.code_map, r.still_unassigned, r.warnings, "fall")
      Basename(unmatched, b) ==
        IF fallback_level = "high" /\ b.raised
        THEN Stage(r.code_map, r.still_unassigned, unmatched, "raised")
        ELSE IF fallback_level = "high" /\ b.ret
        THEN Stage(b.code_map, r.still_unassigned, b.warnings, "done")
        ELSE Stage(r.code_map, Append(r.still_unassigned, code), unmatched, "done")
      Unmatched(h, unmatched) ==
        Basename(unmatched,
                 try_basename_match([code_map |-> r.code_map, warnings |-> unmatched],
                                    code, h.hint, h.line_num, strip_hints))
      Candidates(h, candidates) ==
        IF Len(candidates) = 1 THEN Matched(h, candidates[1])
        ELSE IF Len(candidates) > 1
        THEN IF interactive
             THEN Selected(h, resolve_conflict_interactive(h.hint, candidates, choice))
             ELSE Stage(r.code_map, Append(r.still_unassigned, code),
                        Append(r.warnings,
                               Warning("warn", "ambiguous_kept", h.hint, None, candidates)),
                        "done")
        ELSE Unmatched(h, Append(r.warnings,
                                 Warning("warn", "hint_unmatched", h.hint, None, <<>>)))
      Hinted(h) ==
        IF h.hint = None THEN Stage(r.code_map, r.still_unassigned, r.warnings, "fall")
        ELSE Candidates(h, find_matching_files(h.hint, r.code_map, fallback_level))
  IN  Hinted(extract_hint_from_code(code))

\* Step 3: the first line as an assumed heading (medium and high)
AssumedStage(r, code, strip_hints, interactive, fallback_level, choice) ==
  LET Appended(a) ==
        Stage(a.code_map, r.still_unassigned, a.warnings,
              IF a.raised THEN "raised" ELSE IF a.ret THEN "done" ELSE "fall")
      Selected(sel, body) ==
        IF sel.aborted THEN Stage(r.code_map, r.still_unassigned, r.warnings, "aborted")
        ELSE IF ~sel.valid THEN Stage(r.code_map, r.still_unassigned, r.warnings, "invalid")
        ELSE IF sel.selected # None /\ body # <<>>
        THEN Stage(DictAppend(r.code_map, sel.selected, body), r.still_unassigned,
                   Append(r.warnings,
                          Warning("info", "rescued_interactive", None, sel.selected, <<>>)),
                   "done")
        ELSE Stage(r.code_map, r.still_unassigned, r.warnings, "fall")
      Candidates(assumed_hint, candidates, body) ==
        IF Len(candidates) = 1
        THEN Appended(AppendRescued([code_map |-> r.code_map, warnings |-> r.warnings],
                                    candidates[1], body, "rescued_assumed", assumed_hint))
        ELSE IF Len(candidates) > 1 /\ interactive
        THEN Selected(resolve_conflict_interactive(assumed_hint, candidates, choice), body)
        ELSE Stage(r.code_map, r.still_unassigned, r.warnings, "fall")
      Assumed(assumed_hint) ==
        Candidates(assumed_hint, find_matching_files(assumed_hint, r.code_map, fallback_level),
                   AfterFirstLine(code, strip_hints))
  IN  IF fallback_level \notin {"medium", "high"} \/ SplitLines(code) = <<>>
      THEN Stage(r.code_map, r.still_unassigned, r.warnings, "fall")
      ELSE Assumed(CleanHint(SplitLines(code)[1]))

\* Step 4: the heading map (medium and high)
HeadingStage(r, code, heading_map, strip_hints, fallback_level) ==
  LET Matched(t) ==
        Stage(t.code_map, r.still_unassigned, t.warnings,
              IF t.raised THEN "raised" ELSE IF t.ret THEN "done" ELSE "fall")
  IN  IF fallback_level \notin {"medium", "high"}
      THEN Stage(r.code_map, r.still_unassigned, r.warnings, "fall")
      ELSE Matched(try_heading_match([code_map |-> r.code_map, warnings |-> r.warnings],
                                     code, heading_map, strip_hints))

\* Step 5: the first file with no block takes the block (high only)
FallbackStage(r, code, fallback_level) ==
  LET Assigned(target_files) ==
        IF fallback_level = "high" /\ target_files # <<>>
        THEN Stage(DictAppend(r.code_map, target_files[1], code), r.still_unassigned,
                   Append(r.warnings,
                          Warning("info", "fallback_assigned", None, target_files[1], <<>>)),
                   "done")
        ELSE Stage(r.code_map, r.still_unassigned, r.warnings, "fall")
      Of(keys) ==
        Assigned(SelectIdx(keys, {k \in 1..Len(keys) : DictGet(r.code_map, keys[k]) = <<>>},
                           1))
  IN  Of(DictKeys(r.code_map))

\* a loop body that appends the block it could not place twice
KeepUnassignedTwice(r, code) ==
  Stage(r.code_map, Append(Append(r.still_unassigned, code), code), r.warnings, "done")

\* the block stays unassigned: the last statement of the loop body
KeepUnassigned(r, code) ==
  Stage(r.code_map, Append(r.still_unassigned, code), r.warnings, "done")

\* the except clause of the loop body
RescueExcept(r, code) ==
  Stage(r.code_map, Append(r.still_unassigned, code),
        Append(r.warnings, Warning("warn", "rescue_error", None, None, <<>>)), "done")

\* the stages in turn, up to the first that does not fall through
RescueStages(r, code, heading_map, strip_hints, interactive, fallback_level, c1, c2) ==
  LET Step5(s5) == IF s5.status # "fall" THEN s5 ELSE KeepUnassigned(s5, code)
      Step4(s4) ==
        IF s4.status # "fall" THEN s4 ELSE Step5(FallbackStage(s4, code, fallback_level))
      Step3(s3) ==
        IF s3.status # "fall" THEN s3
        ELSE Step4(HeadingStage(s3, code, heading_map, strip_hints, fallback_level))
      Step1(s1) ==
        IF s1.status # "fall" THEN s1
        ELSE Step3(AssumedStage(s1, code, strip_hints, interactive, fallback_level, c2))
  IN  Step1(HintStage(r, code, strip_hints, interactive, fallback_level, c1))

\* a loop body whose handler also catches the exit raised by an abort
RescueBodyCatchingExit(r, code, heading_map, strip_hints, interactive, fallback_level, c1, c2) ==
  LET Caught(s) == IF s.status \in {"raised", "aborted"} THEN RescueExcept(s, code) ELSE s
  IN  IF Strip(code) = <<>>
      THEN Stage(r.code_map, r.still_unassigned,
                 Append(r.warnings, Warning("warn", "skipped_empty", None, None, <<>>)),
                 "done")
      ELSE Caught(RescueStages(r, code, heading_map, strip_hints, interactive,
                               fallback_level, c1, c2))

\* one pass through the body of the loop of try_rescue_unassigned; c1 and c2
\* are the user's answers to the prompts of steps 2 and 3
RescueBody(r, code, heading_map, strip_hints, interactive, fallback_level, c1, c2) ==
  LET Caught(s) == IF s.status = "raised" THEN RescueExcept(s, code) ELSE s
  IN  IF Strip(code) = <<>>
      THEN Stage(r.code_map, r.still_unassigned,
                 Append(r.warnings, Warning("warn", "skipped_empty", None, None, <<>>)),
                 "done")
      ELSE Caught(RescueStages(r, code, heading_map, strip_hints, interactive,
                               fallback_level, c1, c2))

\* ===========================================================================
\* reconcile_and_write.py: the content the writer gives each file
\* ===========================================================================

\* re.sub(r'[/\\]+', '/', s): every run of slashes becomes one forward slash
RECURSIVE CollapseSlashes(_)
CollapseSlashes(s) ==
  IF s = <<>> THEN <<>>
  ELSE IF s[1] \in {"/", "\\"}
  THEN <<"/">> \o CollapseSlashes(LStripSet(s, {"/", "\\"}))
  ELSE <<s[1]>> \o CollapseSlashes(Tail(s))

\* normalize_path_segment(seg)
normalize_path_segment(seg) ==
  LET Headed(trimmed) ==
        IF Len(trimmed) >= 2 /\ trimmed[1] = "." /\ trimmed[2] \in {"/", "\\"}
        THEN Drop(trimmed, 2) ELSE trimmed
  IN  Strip(CollapseSlashes(Headed(RStripSet(Strip(seg), {"/", "\\"}))))

\* EXT_COMMENT_PLACEHOLDER.get(ext, EXT_COMMENT_PLACEHOLDER["default"])
EXT_COMMENT_PLACEHOLDER(ext) ==
  CASE ext \in {<<".", "p", "y">>, <<".", "r", "b">>, <<".", "s", "h">>,
                <<".", "b", "a", "s", "h">>, <<".", "z", "s", "h">>, <<".", "p", "s", "1">>,
                <<".", "c", "f", "g">>, <<".", "c", "o", "n", "f">>, <<".", "y", "m", "l">>,
                <<".", "y", "a", "m", "l">>, <<".", "t", "o", "m", "l">>} ->
         <<"#", " ", "T", "O", "D", "O", ":", " ", "i", "m", "p", "l", "e", "m", "e", "n", "t", NL>>
    [] ext \in {<<".", "j", "s">>, <<".", "t", "s">>, <<".", "t", "s", "x">>,
                <<".", "j", "s", "x">>, <<".", "j", "a", "v", "a">>, <<".", "g", "o">>,
                <<".", "r", "s">>, <<".", "c", "p", "p">>, <<".", "c">>, <<".", "h">>,
                <<".", "h", "p", "p">>, <<".", "c", "s">>, <<".", "p", "h", "p">>,
                <<".", "s", "w", "i", "f", "t">>, <<".", "k", "t">>} ->
         <<"/", "/", " ", "T", "O", "D", "O", ":", " ", "i", "m", "p", "l", "e", "m", "e", "n", "t", NL>>
    [] ext \in {<<".", "b", "a", "t">>} ->
         <<"R", "E", "M", " ", "T", "O", "D", "O", ":", " ", "i", "m", "p", "l", "e", "m", "e", "n", "t", NL>>
    [] ext \in {<<".", "j", "s", "o", "n">>} ->
         <<"{", NL, " ", " ", "\"", "/", "/", "\"", ":", " ", "\"", "T", "O", "D", "O", ":", " ", "f", "i", "l", "l", "\"", NL, "}", NL>>
    [] ext \in {<<".", "x", "m", "l">>, <<".", "h", "t", "m", "l">>} ->
         <<"<", "!", "-", "-", " ", "T", "O", "D", "O", ":", " ", "i", "m", "p", "l", "e", "m", "e", "n", "t", " ", "-", "-", ">", NL>>
    [] ext \in {<<".", "c", "s", "v">>} ->
         <<"#", " ", "T", "O", "D", "O", ":", " ", "f", "i", "l", "l", " ", "d", "a", "t", "a", NL>>
    [] ext \in {<<".", "m", "d">>} ->
         <<"<", "!", "-", "-", " ", "T", "O", "D", "O", ":", " ", "f", "i", "l", "l", " ", "-", "-", ">", NL>>
    [] ext \in {<<".", "r", "s", "t">>} ->
         <<".", ".", " ", "T", "O", "D", "O", ":", " ", "f", "i", "l", "l", NL>>
    [] ext \in {<<".", "t", "x", "t">>} ->
         <<"#", " ", "T", "O", "D", "O", ":", " ", "f", "i", "l", "l", NL>>
    [] ext \in {<<".", "c", "s", "s">>, <<".", "s", "c", "s", "s">>,
                <<".", "s", "a", "s", "s">>, <<".", "l", "e", "s", "s">>} ->
         <<"/", "*", " ", "T", "O", "D", "O", ":", " ", "i", "m", "p", "l", "e", "m", "e", "n", "t", " ", "*", "/", NL>>
    [] ext \in {<<".", "s", "q", "l">>, <<".", "s", "q", "l", "i", "t", "e">>} ->
         <<"-", "-", " ", "T", "O", "D", "O", ":", " ", "i", "m", "p", "l", "e", "m", "e", "n", "t", NL>>
    [] OTHER ->
         <<"#", " ", "T", "O", "D", "O", ":", " ", "i", "m", "p", "l", "e", "m", "e", "n", "t", NL>>

\* prepare_file_content(entry, code_map, heading_map, skip_empty) ->
\* (content, is_placeholder, warning); none marks a content of None
prepare_file_content(entry, code_map, skip_empty) ==
  LET Ext(pieces) == IF Len(pieces) > 1 THEN <<".">> \o pieces[Len(pieces)] ELSE <<>>
      Joined(content) ==
        IF content # <<>>
        THEN [none |-> FALSE, content |-> content \o <<NL>>, is_placeholder |-> FALSE]
        ELSE [none |-> TRUE, content |-> <<>>, is_placeholder |-> FALSE]
      Prepared(content_parts) ==
        IF content_parts # <<>> THEN Joined(Strip(Join(content_parts, <<NL, NL>>)))
        ELSE IF skip_empty THEN [none |-> TRUE, content |-> <<>>, is_placeholder |-> TRUE]
        ELSE [none |-> FALSE,
              content |-> EXT_COMMENT_PLACEHOLDER(Ext(SplitOn(PathName(entry), "."))),
              is_placeholder |-> TRUE]
  IN  Prepared(IF DictHas(code_map, entry) THEN DictGet(code_map, entry) ELSE <<>>)

\* add_heading_comment(content, entry, heading_map)
add_heading_comment(content, entry, heading_map) ==
  LET Commented(heading, prefix) ==
        IF prefix = <<"/", "*", " ">>
        THEN <<"/", "*", " ">> \o heading \o <<" ", "*", "/", NL>> \o content
        ELSE IF prefix = <<"<", "!", "-", "-", " ">>
        THEN <<"<", "!", "-", "-", " ">> \o heading \o <<" ", "-", "-", ">", NL>> \o content
        ELSE prefix \o heading \o <<NL>> \o content
  IN  IF ~DictHas(heading_map, entry) THEN content
      ELSE Commented(DictGet(heading_map, entry), get_comment_prefix(Lower(PathSuffix(entry))))

\* the loop of reconcile_and_write over the tree entries from the k-th: the
\* text handed to safe_write_text for each file entry, as a dict path -> text
RECURSIVE WrittenFrom(_, _, _, _, _, _, _)
WrittenFrom(tree_entries, k, code_map, heading_map, fa, da, skip_empty) ==
  IF k > Len(tree_entries) THEN <<>>
  ELSE LET rest == WrittenFrom(tree_entries, k + 1, code_map, heading_map, fa, da, skip_empty)
           Entry(entry_clean, p) ==
             IF entry_clean = <<>> \/ ~is_probably_file(PathName(entry_clean), fa, da)
                \/ p.none
             THEN rest
             ELSE <<[key |-> entry_clean,
                     val |-> add_heading_comment(p.content, entry_clean, heading_map)]>>
                  \o rest
           Of(entry_clean) ==
             Entry(entry_clean, prepare_file_content(entry_clean, code_map, skip_empty))
       IN  Of(normalize_path_segment(tree_entries[k]))

\* ===========================================================================
\* State
\* ===========================================================================

VARIABLES
  pc,                 \* where the run is
  tree_files,         \* the tree entries (main: tree_entries)
  files_always,       \* argument
  dirs_always,        \* argument
  strip_hints,        \* args.strip_hints
  interactive,        \* args.interactive
  conflict_strategy,  \* args.conflict_strategy
  fallback_level,     \* args.fallback_level
  tokens,             \* the tokens being processed
  fed,                \* how many blocks of the document have been read
  i,                  \* loop index into tokens (1-based)
  current_file,       \* map_headings_to_files local
  current_heading,    \* map_headings_to_files local
  skip_next_fence_for_file_structure,
  file_paths,         \* PathLookup.file_paths
  code_map,           \* dict path -> list of blocks
  unassigned,         \* FenceBlockProcessor.unassigned_blocks, then main's unassigned
  warnings,           \* FenceBlockProcessor.warnings, then main's mapping_warnings
  heading_map,        \* HeadingMapper.file_to_heading
  mapped_code_map,    \* code_map as map_headings_to_files returned it
  items,              \* the keys of list(code_map.items()) in main's conflict loop
  n,                  \* position of a loop of main or of try_rescue_unassigned (1-based)
  still_unassigned,   \* the still_unassigned list of the running loop
  rescue_warnings,    \* rescued_warnings, then main's rescue_warnings
  written,            \* dict path -> text handed to safe_write_text
  call,               \* the library function applied on its own, "none" in a run of main
  given,              \* the argument of that call
  result,             \* what the call returned
  line_num,           \* parse_ascii_tree_block: the line of the loop (1-based)
  stack,              \* parse_ascii_tree_block: the directory stack
  entries             \* parse_ascii_tree_block: the entries collected so far

args == <<tree_files, files_always, dirs_always, strip_hints, interactive, conflict_strategy,
          fallback_level>>

engine_vars == <<tokens, i, current_file, current_heading,
                 skip_next_fence_for_file_structure, file_paths, code_map, unassigned,
                 warnings, heading_map>>

main_vars == <<mapped_code_map, items, n, still_unassigned, rescue_warnings, written>>

call_vars == <<call, given, result, line_num, stack, entries>>

vars == <<pc, args, fed, engine_vars, main_vars, call_vars>>

\* no library function is applied on its own
NoCall ==
  /\ call = "none"
  /\ given = <<>>
  /\ result = <<>>
  /\ line_num = 1
  /\ stack = <<>>
  /\ entries = <<>>

\* the state of the running call of map_headings_to_files
Engine ==
  [tokens |-> tokens, i |-> i, current_file |-> current_file,
   current_heading |-> current_heading,
   skip_next_fence_for_file_structure |-> skip_next_fence_for_file_structure,
   file_paths |-> file_paths, code_map |-> code_map, unassigned |-> unassigned,
   warnings |-> warnings, heading_map |-> heading_map, strip_hints |-> strip_hints]

\* the call moves to state e
Becomes(e) ==
  /\ tokens' = e.tokens
  /\ i' = e.i
  /\ current_file' = e.current_file
  /\ current_heading' = e.current_heading
  /\ skip_next_fence_for_file_structure' = e.skip_next_fence_for_file_structure
  /\ file_paths' = e.file_paths
  /\ code_map' = e.code_map
  /\ unassigned' = e.unassigned
  /\ warnings' = e.warnings
  /\ heading_map' = e.heading_map

\* ===========================================================================
\* map_headings_to_files: the primary pass, token by token
\* ===========================================================================

Init ==
  /\ pc = "start"
  /\ tree_files \in Trees
  /\ files_always = {}
  /\ dirs_always = {}
  /\ strip_hints \in BOOLEAN
  /\ interactive = FALSE
  /\ conflict_strategy = "first"
  /\ fallback_level = "low"
  /\ tokens = <<>>
  /\ fed = 0
  /\ i = 1
  /\ current_file = None
  /\ current_heading = None
  /\ skip_next_fence_for_file_structure = FALSE
  /\ file_paths = <<>>
  /\ code_map = <<>>
  /\ unassigned = <<>>
  /\ warnings = <<>>
  /\ heading_map = <<>>
  /\ mapped_code_map = <<>>
  /\ items = <<>>
  /\ n = 1
  /\ still_unassigned = <<>>
  /\ rescue_warnings = <<>>
  /\ written = <<>>
  /\ NoCall

\* map_headings_to_files called with no tokens: the early return
MapEmpty ==
  /\ pc = "start"
  /\ pc' = "mapped"
  /\ UNCHANGED <<args, call_vars, fed, engine_vars, main_vars>>

\* map_headings_to_files called with tokens: code_map and the helpers are built
MapStart ==
  /\ pc = "start"
  /\ tree_files # <<>>
  /\ \E g \in Groups :
       Becomes(LoopStart(g, tree_files, files_always, dirs_always, strip_hints))
  /\ fed' = 1
  /\ pc' = "tokens"
  /\ UNCHANGED <<args, call_vars, main_vars>>

\* the tokenizer's next block
Feed ==
  /\ pc = "tokens"
  /\ i > Len(tokens)
  /\ fed < MaxGroups
  /\ \E g \in Groups : tokens' = g
  /\ fed' = fed + 1
  /\ i' = 1
  /\ UNCHANGED <<pc, args, call_vars, current_file, current_heading,
                 skip_next_fence_for_file_structure,
                 file_paths, code_map, unassigned, warnings, heading_map, main_vars>>

\* a pass through the loop body is due
AtToken == pc = "tokens" /\ i <= Len(tokens)

\* the heading branch of the loop
HeadingToken ==
  /\ AtToken
  /\ ~TokenRaises(Engine)
  /\ tokens[i].type = "heading_open"
  /\ Becomes(HeadingBranch(Engine))
  /\ UNCHANGED <<pc, args, call_vars, fed, main_vars>>

\* the fence branch with the File Structure flag armed: the fence is consumed
FenceSkipped ==
  /\ AtToken
  /\ ~TokenRaises(Engine)
  /\ tokens[i].type = "fence"
  /\ skip_next_fence_for_file_structure
  /\ Becomes(FenceBranch(Engine))
  /\ UNCHANGED <<pc, args, call_vars, fed, main_vars>>

\* the fence branch: process_fence_block
FenceToken ==
  /\ AtToken
  /\ ~TokenRaises(Engine)
  /\ tokens[i].type = "fence"
  /\ ~skip_next_fence_for_file_structure
  /\ Becomes(FenceBranch(Engine))
  /\ UNCHANGED <<pc, args, call_vars, fed, main_vars>>

\* the paragraph branch: a paragraph under a mapped heading is content
ParagraphToken ==
  /\ AtToken
  /\ ~TokenRaises(Engine)
  /\ ParagraphTaken(Engine)
  /\ Becomes(ParagraphBranch(Engine))
  /\ UNCHANGED <<pc, args, call_vars, fed, main_vars>>

\* every other token, and a paragraph with no mapped heading
OtherToken ==
  /\ AtToken
  /\ tokens[i].type \notin {"heading_open", "fence"}
  /\ ~ParagraphTaken(Engine)
  /\ Becomes(OtherBranch(Engine))
  /\ UNCHANGED <<pc, args, call_vars, fed, main_vars>>

\* the loop body raises: the except clause logs and moves to the next token
TokenError ==
  /\ AtToken
  /\ TokenRaises(Engine)
  /\ Becomes(ExceptBranch(Engine))
  /\ UNCHANGED <<pc, args, call_vars, fed, main_vars>>

\* the loop ends: map_headings_to_files returns
MapReturn ==
  /\ pc = "tokens"
  /\ i > Len(tokens)
  /\ pc' = "mapped"
  /\ UNCHANGED <<args, call_vars, fed, engine_vars, main_vars>>

Next ==
  \/ MapEmpty
  \/ MapStart
  \/ Feed
  \/ HeadingToken
  \/ FenceSkipped
  \/ FenceToken
  \/ ParagraphToken
  \/ OtherToken
  \/ TokenError
  \/ MapReturn

Spec == Init /\ [][Next]_vars

\* ===========================================================================
\* generator.main: from the call of map_headings_to_files to the writer
\* ===========================================================================

P_c == <<"c">>
S_c == <<"c", NL, "x", NL>>

\* a tree with one file and an empty directory
TreeEmptyDir == <<P_a, P_a_u, P_c>>
MainTrees == {TreeAmbiguous, TreeMixed, TreeEmptyDir}

C_bare_name == <<"u", ".", "p", "y", NL, "x", NL>>
C_prose == <<"l","o","o","k"," ","a","t"," ","a","/","u",".","p","y", NL, "x", NL>>
C_tree == <<"a", "/", NL>>

\* the File Structure heading and its fence, which every document main
\* accepts starts with here
FileStructureBlock == HeadingGroup(S_FileStructure, FALSE) \o FenceGroup(None, C_tree, FALSE)

\* what follows the File Structure block
MainBodies ==
  { HeadingGroup(P_a_u, FALSE) \o FenceGroup(None, C_plain, FALSE)
      \o FenceGroup(None, C_indented, FALSE),
    HeadingGroup(P_a_u, FALSE) \o FenceGroup(None, C_plain, FALSE)
      \o ParagraphGroup(S_p, FALSE),
    HeadingGroup(P_a_u, FALSE) \o FenceGroup(None, C_hint_only, FALSE)
      \o FenceGroup(None, C_plain, FALSE),
    FenceGroup(S_u, C_hint_short, FALSE),
    FenceGroup(None, C_plain, FALSE),
    FenceGroup(None, C_hint_only, FALSE) \o FenceGroup(S_u, C_hint_short, FALSE),
    FenceGroup(None, <<>>, FALSE) \o FenceGroup(S_u, C_hint_other, FALSE),
    FenceGroup(S_u, C_bare_name, FALSE),
    FenceGroup(None, S_c, FALSE),
    FenceGroup(None, C_prose, FALSE) \o HeadingGroup(P_a_u, FALSE) }

MainDocs == {FileStructureBlock \o d : d \in MainBodies}

\* args.interactive and args.conflict_strategy
MainModes == {<<TRUE, "first">>} \cup {<<FALSE, s>> : s \in Strategies}

FallbackLevels == {"low", "medium", "high"}

InitMain ==
  /\ pc = "main"
  /\ tree_files \in MainTrees
  /\ files_always = {}
  /\ dirs_always = {}
  /\ strip_hints \in BOOLEAN
  /\ \E m \in MainModes : interactive = m[1] /\ conflict_strategy = m[2]
  /\ fallback_level \in FallbackLevels
  /\ tokens \in MainDocs
  /\ fed = 0
  /\ i = 1
  /\ current_file = None
  /\ current_heading = None
  /\ skip_next_fence_for_file_structure = FALSE
  /\ file_paths = <<>>
  /\ code_map = <<>>
  /\ unassigned = <<>>
  /\ warnings = <<>>
  /\ heading_map = <<>>
  /\ mapped_code_map = <<>>
  /\ items = <<>>
  /\ n = 1
  /\ still_unassigned = <<>>
  /\ rescue_warnings = <<>>
  /\ written = <<>>
  /\ NoCall

\* what main leaves alone between the primary pass and the writer
main_frame ==
  <<args, tokens, fed, i, current_file, current_heading, skip_next_fence_for_file_structure,
    file_paths, call_vars>>

\* the call of map_headings_to_files
MainMapped(r) ==
  /\ code_map' = r.code_map
  /\ unassigned' = r.unassigned
  /\ warnings' = r.warnings
  /\ heading_map' = r.heading_map
  /\ mapped_code_map' = r.code_map

MainMap ==
  /\ pc = "main"
  /\ MainMapped(map_headings_to_files(tokens, tree_files, files_always, dirs_always,
                                      strip_hints))
  /\ pc' = "mapped"
  /\ UNCHANGED <<main_frame, items, n, still_unassigned, rescue_warnings, written>>

\* for target, blocks in list(code_map.items()): the list is taken
ConflictsStart ==
  /\ pc = "mapped"
  /\ items' = DictKeys(code_map)
  /\ n' = 1
  /\ pc' = "conflicts"
  /\ UNCHANGED <<main_frame, code_map, unassigned, warnings, heading_map, mapped_code_map,
                 still_unassigned, rescue_warnings, written>>

AtConflict == pc = "conflicts" /\ n <= Len(items)

\* a file with at most one block
ConflictNone ==
  /\ AtConflict
  /\ Len(DictGet(code_map, items[n])) <= 1
  /\ n' = n + 1
  /\ UNCHANGED <<pc, main_frame, code_map, unassigned, warnings, heading_map,
                 mapped_code_map, items, still_unassigned, rescue_warnings, written>>

\* the outcome of a resolution: one block kept, or every block moved to
\* unassigned and the key deleted
ConflictResolved(target, blocks, resolved, kept_kind, skipped_kind) ==
  IF resolved # <<>>
  THEN /\ code_map' = DictSet(code_map, target, <<resolved>>)
       /\ unassigned' = unassigned
       /\ warnings' = Append(warnings, Warning("info", kept_kind, None, target, <<>>))
  ELSE /\ code_map' = DictDel(code_map, target)
       /\ unassigned' = unassigned \o blocks
       /\ warnings' = Append(warnings, Warning("info", skipped_kind, None, target, <<>>))

\* several blocks for one file, batch mode
ConflictBatch ==
  /\ AtConflict
  /\ Len(DictGet(code_map, items[n])) > 1
  /\ ~interactive
  /\ ConflictResolved(items[n], DictGet(code_map, items[n]),
                      resolve_conflict_batch(items[n], DictGet(code_map, items[n]),
                                             conflict_strategy),
                      "batch_resolved", "batch_skipped")
  /\ n' = n + 1
  /\ UNCHANGED <<pc, main_frame, heading_map, mapped_code_map, items, still_unassigned,
                 rescue_warnings, written>>

\* several blocks for one file, interactive mode: the user picks a block or skips
ConflictInteractive ==
  /\ AtConflict
  /\ Len(DictGet(code_map, items[n])) > 1
  /\ interactive
  /\ \E choice \in Answers :
       /\ resolve_conflict_interactive(items[n], DictGet(code_map, items[n]), choice).valid
       /\ ~resolve_conflict_interactive(items[n], DictGet(code_map, items[n]), choice).aborted
       /\ ConflictResolved(items[n], DictGet(code_map, items[n]),
                           resolve_conflict_interactive(items[n], DictGet(code_map, items[n]),
                                                        choice).selected,
                           "interactive_resolved", "interactive_skipped")
  /\ n' = n + 1
  /\ UNCHANGED <<pc, main_frame, heading_map, mapped_code_map, items, still_unassigned,
                 rescue_warnings, written>>

\* the user aborts at a prompt of the conflict loop: sys.exit(1)
ConflictAbort ==
  /\ AtConflict
  /\ Len(DictGet(code_map, items[n])) > 1
  /\ interactive
  /\ pc' = "aborted"
  /\ UNCHANGED <<main_frame, code_map, unassigned, warnings, heading_map, mapped_code_map,
                 items, n, still_unassigned, rescue_warnings, written>>

ConflictsDone ==
  /\ pc = "conflicts"
  /\ n > Len(items)
  /\ pc' = "rescue_call"
  /\ UNCHANGED <<main_frame, code_map, unassigned, warnings, heading_map, mapped_code_map,
                 items, n, still_unassigned, rescue_warnings, written>>

\* ===========================================================================
\* main's call of try_rescue_unassigned, block by block
\* ===========================================================================

\* if not unassigned: return [], [message]
RescueEmpty ==
  /\ pc = "rescue_call"
  /\ unassigned = <<>>
  /\ unassigned' = <<>>
  /\ rescue_warnings' = <<Warning("info", "nothing_to_rescue", None, None, <<>>)>>
  /\ pc' = "fuzzy"
  /\ UNCHANGED <<main_frame, code_map, warnings, heading_map, mapped_code_map, items, n,
                 still_unassigned, written>>

\* if not code_map: return unassigned, [message]
RescueNoMap ==
  /\ pc = "rescue_call"
  /\ unassigned # <<>>
  /\ code_map = <<>>
  /\ rescue_warnings' = <<Warning("warn", "no_code_map", None, None, <<>>)>>
  /\ pc' = "fuzzy"
  /\ UNCHANGED <<main_frame, code_map, unassigned, warnings, heading_map, mapped_code_map,
                 items, n, still_unassigned, written>>

\* the loop over the unassigned blocks starts
RescueStart ==
  /\ pc = "rescue_call"
  /\ unassigned # <<>>
  /\ code_map # <<>>
  /\ still_unassigned' = <<>>
  /\ rescue_warnings' = <<>>
  /\ n' = 1
  /\ pc' = "rescue"
  /\ UNCHANGED <<main_frame, code_map, unassigned, warnings, heading_map, mapped_code_map,
                 items, written>>

\* the answers the user can give at one prompt; batch mode never prompts
Prompted == IF interactive THEN Answers ELSE {"s"}

\* the loop of try_rescue_unassigned is at a block
AtRescue == pc = "rescue" /\ n <= Len(unassigned)

\* the state of the loop, as the record the stages work on
Rescue ==
  [code_map |-> code_map, still_unassigned |-> still_unassigned,
   warnings |-> rescue_warnings, status |-> "done"]

\* the loop moves to state s and to the next block
RescueBecomes(s) ==
  /\ s.status = "done"
  /\ code_map' = s.code_map
  /\ still_unassigned' = s.still_unassigned
  /\ rescue_warnings' = s.warnings

\* one pass through the loop body
RescueBlock ==
  /\ AtRescue
  /\ \E c1, c2 \in Prompted :
       RescueBecomes(RescueBody(Rescue, unassigned[n], heading_map, strip_hints, interactive,
                                fallback_level, c1, c2))
  /\ n' = n + 1
  /\ UNCHANGED <<pc, main_frame, unassigned, warnings, heading_map, mapped_code_map, items,
                 written>>

\* the user aborts at a prompt of the rescue pass: sys.exit(1)
RescueAbort ==
  /\ AtRescue
  /\ \E c1, c2 \in Prompted :
       RescueBody(Rescue, unassigned[n], heading_map, strip_hints, interactive,
                  fallback_level, c1, c2).status = "aborted"
  /\ pc' = "aborted"
  /\ UNCHANGED <<main_frame, code_map, unassigned, warnings, heading_map, mapped_code_map,
                 items, n, still_unassigned, rescue_warnings, written>>

\* return still_unassigned, rescued_warnings
RescueReturn ==
  /\ pc = "rescue"
  /\ n > Len(unassigned)
  /\ unassigned' = still_unassigned
  /\ pc' = "fuzzy"
  /\ UNCHANGED <<main_frame, code_map, warnings, heading_map, mapped_code_map, items, n,
                 still_unassigned, rescue_warnings, written>>

\* ===========================================================================
\* main's fuzzy fallback over what the rescue pass left
\* ===========================================================================

\* if unassigned and args.fallback_level in ("medium", "high")
FuzzyWanted == unassigned # <<>> /\ fallback_level \in {"medium", "high"}

FuzzySkip ==
  /\ pc = "fuzzy"
  /\ ~FuzzyWanted
  /\ pc' = "write"
  /\ UNCHANGED <<main_frame, code_map, unassigned, warnings, heading_map, mapped_code_map,
                 items, n, still_unassigned, rescue_warnings, written>>

FuzzyStart ==
  /\ pc = "fuzzy"
  /\ FuzzyWanted
  /\ still_unassigned' = <<>>
  /\ n' = 1
  /\ pc' = "fuzzy_loop"
  /\ UNCHANGED <<main_frame, code_map, unassigned, warnings, heading_map, mapped_code_map,
                 items, rescue_warnings, written>>

\* lines[0].strip().lstrip("./").replace("\\", "/") if lines else ""
FuzzyHint(code) == IF SplitLines(code) = <<>> THEN <<>> ELSE CleanHint(SplitLines(code)[1])

\* difflib.get_close_matches(hint, tree_entries, n=3, cutoff=0.8), [] with no hint
FuzzyClosest(code) ==
  IF FuzzyHint(code) = <<>> THEN <<>>
  ELSE get_close_matches(FuzzyHint(code), tree_files, 3, 8, 10)

\* code_map.setdefault(target, []).append(code)
SetDefaultAppend(d, target, code) ==
  IF DictHas(d, target) THEN DictAppend(d, target, code)
  ELSE Append(d, [key |-> target, val |-> <<code>>])

\* the block goes to target, or stays unassigned when there is none
FuzzyAssigned(code, target, kind) ==
  IF target # None
  THEN /\ code_map' = SetDefaultAppend(code_map, target, code)
       /\ rescue_warnings' = Append(rescue_warnings, Warning("info", kind, None, target, <<>>))
       /\ still_unassigned' = still_unassigned
  ELSE /\ code_map' = code_map
       /\ rescue_warnings' = rescue_warnings
       /\ still_unassigned' = Append(still_unassigned, code)

AtFuzzy == pc = "fuzzy_loop" /\ n <= Len(unassigned)

\* one block of the fuzzy fallback, batch mode
FuzzyBatch ==
  /\ AtFuzzy
  /\ ~interactive
  /\ FuzzyAssigned(unassigned[n],
                   resolve_conflict_batch(FuzzyHint(unassigned[n]),
                                          FuzzyClosest(unassigned[n]), conflict_strategy),
                   "fuzzy_batch")
  /\ n' = n + 1
  /\ UNCHANGED <<pc, main_frame, unassigned, warnings, heading_map, mapped_code_map, items,
                 written>>

\* one block of the fuzzy fallback, interactive mode
FuzzyInteractive ==
  /\ AtFuzzy
  /\ interactive
  /\ \E choice \in Answers :
       /\ resolve_conflict_interactive(FuzzyHint(unassigned[n]), FuzzyClosest(unassigned[n]),
                                       choice).valid
       /\ ~resolve_conflict_interactive(FuzzyHint(unassigned[n]), FuzzyClosest(unassigned[n]),
                                        choice).aborted
       /\ FuzzyAssigned(unassigned[n],
                        resolve_conflict_interactive(FuzzyHint(unassigned[n]),
                                                     FuzzyClosest(unassigned[n]),
                                                     choice).selected,
                        "fuzzy_interactive")
  /\ n' = n + 1
  /\ UNCHANGED <<pc, main_frame, unassigned, warnings, heading_map, mapped_code_map, items,
                 written>>

\* the user aborts at the prompt of the fuzzy fallback: sys.exit(1)
FuzzyAbort ==
  /\ AtFuzzy
  /\ interactive
  /\ \E choice \in Answers :
       resolve_conflict_interactive(FuzzyHint(unassigned[n]), FuzzyClosest(unassigned[n]),
                                    choice).aborted
  /\ pc' = "aborted"
  /\ UNCHANGED <<main_frame, code_map, unassigned, warnings, heading_map, mapped_code_map,
                 items, n, still_unassigned, rescue_warnings, written>>

\* unassigned = still_unassigned
FuzzyDone ==
  /\ pc = "fuzzy_loop"
  /\ n > Len(unassigned)
  /\ unassigned' = still_unassigned
  /\ pc' = "write"
  /\ UNCHANGED <<main_frame, code_map, warnings, heading_map, mapped_code_map, items, n,
                 still_unassigned, rescue_warnings, written>>

\* ===========================================================================
\* main's call of reconcile_and_write
\* ===========================================================================

Write ==
  /\ pc = "write"
  /\ written' = WrittenFrom(tree_files, 1, code_map, heading_map, files_always, dirs_always,
                            FALSE)
  /\ pc' = "done"
  /\ UNCHANGED <<main_frame, code_map, unassigned, warnings, heading_map, mapped_code_map,
                 items, n, still_unassigned, rescue_warnings>>

NextMain ==
  \/ MainMap
  \/ ConflictsStart
  \/ ConflictNone
  \/ ConflictBatch
  \/ ConflictInteractive
  \/ ConflictAbort
  \/ ConflictsDone
  \/ RescueEmpty
  \/ RescueNoMap
  \/ RescueStart
  \/ RescueBlock
  \/ RescueAbort
  \/ RescueReturn
  \/ FuzzySkip
  \/ FuzzyStart
  \/ FuzzyBatch
  \/ FuzzyInteractive
  \/ FuzzyAbort
  \/ FuzzyDone
  \/ Write

SpecMain == InitMain /\ [][NextMain]_vars

\* ===========================================================================
\* Properties
\* ===========================================================================

\* the number of blocks in all the lists of a code_map
RECURSIVE BlockCount(_)
BlockCount(d) == IF d = <<>> THEN 0 ELSE Len(d[1].val) + BlockCount(Tail(d))

\* code_map cm2 is cm with one block appended to the list of one key, and
\* nothing else changed
AppendedOnce(cm, cm2) ==
  /\ Len(cm2) = Len(cm)
  /\ \E k \in 1..Len(cm) :
       /\ cm2[k].key = cm[k].key
       /\ Len(cm2[k].val) = Len(cm[k].val) + 1
       /\ SubSeq(cm2[k].val, 1, Len(cm[k].val)) = cm[k].val
       /\ \A j \in (1..Len(cm)) \ {k} : cm2[j] = cm[j]

\* the key whose list differs between cm and cm2, and the last block of its
\* list in cm2
GrownKey(cm, cm2) == cm[CHOOSE k \in 1..Len(cm) : cm2[k].val # cm[k].val].key
LastStored(cm2, target) == DictGet(cm2, target)[Len(DictGet(cm2, target))]

\* the loop of map_headings_to_files is at a fence that process_fence_block
\* will get, and the fence does not make the loop body raise
AtProcessedFence ==
  /\ AtToken
  /\ ~TokenRaises(Engine)
  /\ tokens[i].type = "fence"
  /\ ~skip_next_fence_for_file_structure

\* ---------------------------------------------------------------------------
\* C1: in map_headings_to_files every fence that is processed without an
\* exception and is not the fence consumed by the File Structure flag is
\* appended exactly once: to one list of code_map or to unassigned.
C1_NoFenceDropped ==
  [][AtProcessedFence =>
       BlockCount(code_map') + Len(unassigned')
         = BlockCount(code_map) + Len(unassigned) + 1]_vars

\* ---------------------------------------------------------------------------
\* the blocks the primary pass gave a file are the first blocks of the list
\* the writer gets for it
KeptForWriter(file, blocks) ==
  /\ DictHas(code_map, file)
  /\ Len(DictGet(code_map, file)) >= Len(blocks)
  /\ SubSeq(DictGet(code_map, file), 1, Len(blocks)) = blocks

\* the text written for file ends with the blocks of code_map[file] joined by
\* a blank line
WrittenJoined(file) ==
  /\ DictHas(written, file)
  /\ EndsWith(DictGet(written, file),
              Strip(Join(DictGet(code_map, file), <<NL, NL>>)) \o <<NL>>)

\* C2: when the primary pass gave a file two or more blocks, all of them, in
\* order, are in code_map[file] when main hands code_map to the writer, and
\* the text written for the file is the blocks joined by a blank line.
C2_AllBlocksReachWriter ==
  \A k \in 1..Len(mapped_code_map) :
    Len(mapped_code_map[k].val) >= 2 =>
      /\ pc \in {"write", "done"} =>
           KeptForWriter(mapped_code_map[k].key, mapped_code_map[k].val)
      /\ pc = "done" => WrittenJoined(mapped_code_map[k].key)

\* ---------------------------------------------------------------------------
\* the tree entries is_probably_file classifies as files
FileEntries ==
  {tree_files[k] : k \in {j \in 1..Len(tree_files) :
                            is_probably_file(PathName(tree_files[j]), files_always,
                                             dirs_always)}}

\* C3: after the primary pass, after main's conflict handling, after the
\* rescue pass and after main's fuzzy fallback, the keys of code_map are
\* exactly the tree entries classified as files.
C3_KeysAreFileEntries ==
  pc \in {"mapped", "rescue_call", "fuzzy", "write", "done"} =>
    {code_map[k].key : k \in 1..Len(code_map)} = FileEntries

\* ---------------------------------------------------------------------------
\* the candidates of the fence-info resolver for the fence at i
InfoCandidates == infer_targets_from_fence_info(Strip(tokens[i].info), DictKeys(code_map))

\* the loop is at a processed fence with no current file whose info the
\* resolver gives more than one candidate for
AtAmbiguousInfo ==
  /\ AtProcessedFence
  /\ current_file = None
  /\ Strip(tokens[i].info) # <<>>
  /\ Len(InfoCandidates) > 1

\* the fence at i went to unassigned, code_map is as it was, and the warning
\* added names the candidates
KeptWithWarning ==
  /\ unassigned' = Append(unassigned, FenceContent(tokens[i]))
  /\ code_map' = code_map
  /\ Len(warnings') = Len(warnings) + 1
  /\ warnings'[Len(warnings')].cands = InfoCandidates

\* C4 as stated: a fence with no current file whose info has more than one
\* candidate goes to unassigned with a warning naming the candidates, and
\* code_map does not change.
C4_AmbiguousNeverPicked == [][AtAmbiguousInfo => KeptWithWarning]_vars

\* C4: a fence with no current file whose info has more than one candidate,
\* and whose info's basename is not the basename of exactly one file, goes to
\* unassigned with a warning naming the candidates, and code_map does not
\* change; when the basename is that of exactly one file the block is
\* appended to that file's list.
C4_AmbiguousUnlessBasename ==
  [][AtAmbiguousInfo =>
       IF Len(find_by_basename(file_paths, PathName(Strip(tokens[i].info)))) = 1
       THEN /\ AppendedOnce(code_map, code_map')
            /\ GrownKey(code_map, code_map')
                 = find_by_basename(file_paths, PathName(Strip(tokens[i].info)))[1]
            /\ unassigned' = unassigned
       ELSE KeptWithWarning]_vars

\* an ambiguous fence info was kept: the last warning names two candidates
\* and the block is the last of unassigned
C4_Witness ==
  /\ pc = "tokens"
  /\ i > Len(tokens)
  /\ tokens[1].type = "fence"
  /\ Strip(tokens[1].info) = S_u
  /\ warnings # <<>>
  /\ warnings[Len(warnings)].kind = "ambiguous_fence_info"
  /\ Len(warnings[Len(warnings)].cands) = 2
  /\ unassigned # <<>>
  /\ unassigned[Len(unassigned)] = FenceContent(tokens[1])

\* ---------------------------------------------------------------------------
\* the document so far is a heading that is literally a file path of the
\* tree, the loop is at the fence after it, the fence has no info, and
\* strip_hints has its default value
AtFenceUnderLiteralHeading ==
  /\ AtProcessedFence
  /\ fed = 2
  /\ ~strip_hints
  /\ current_file # None
  /\ current_heading = current_file
  /\ Strip(tokens[i].info) = <<>>

AtRescuedBlock == AtRescue /\ Strip(unassigned[n]) # <<>>

\* the hint extract_hint_from_code finds in the block the rescue loop is at
RescueHint == extract_hint_from_code(unassigned[n])

\* the block the rescue loop is at has a hint on its first line that is
\* similar to target and has fewer path segments
LessSpecificHint(target) ==
  /\ RescueHint.hint # None
  /\ RescueHint.line_num = 0
  /\ are_hints_similar(RescueHint.hint, target)
  /\ get_path_specificity(RescueHint.hint) < get_path_specificity(target)

\* block no longer holds the first line of old; when not stripping it starts
\* with one hint line naming target, followed by old without its first line
HintLineReplaced(block, old, target) ==
  /\ \A k \in 1..Len(SplitLines(block)) : SplitLines(block)[k] # SplitLines(old)[1]
  /\ ~strip_hints =>
       block = get_comment_prefix(Lower(PathSuffix(target))) \o target
               \o get_comment_suffix(Lower(PathSuffix(target))) \o <<NL>>
               \o WithoutLine(old, 0)

\* C6: a block whose first-line hint is similar to the target but has fewer
\* path segments is stored by the rescue pass without its old hint line: one
\* hint line naming the target and then the body when not stripping, no hint
\* line when stripping.
C6_OldHintLineGone ==
  [][(AtRescuedBlock /\ code_map' # code_map
        /\ LessSpecificHint(GrownKey(code_map, code_map'))) =>
       HintLineReplaced(LastStored(code_map', GrownKey(code_map, code_map')),
                        unassigned[n], GrownKey(code_map, code_map'))]_vars

\* ---------------------------------------------------------------------------
\* the hint on the first line of the fence the primary pass is at
FenceHint == extract_hint_and_body(FenceContent(tokens[i]))

\* C7: in the primary pass a block with a first-line hint is stored unchanged
\* when the hint is similar to the target and has at least as many path
\* segments, and when the hint is dissimilar and strip mode is off.
C7_HintedContentKept ==
  [][(AtProcessedFence /\ code_map' # code_map /\ FenceHint.has_hint
        /\ \/ /\ are_hints_similar(FenceHint.hint, GrownKey(code_map, code_map'))
              /\ get_path_specificity(FenceHint.hint)
                   >= get_path_specificity(GrownKey(code_map, code_map'))
           \/ /\ ~are_hints_similar(FenceHint.hint, GrownKey(code_map, code_map'))
              /\ ~strip_hints) =>
       LastStored(code_map', GrownKey(code_map, code_map')) = FenceContent(tokens[i])]_vars

\* ---------------------------------------------------------------------------
\* C8: the list try_rescue_unassigned returns is no longer than the list it
\* was given, on each of its three returns.
C8_RescueMonotone ==
  [][(pc \in {"rescue_call", "rescue"} /\ pc' = "fuzzy") =>
       Len(unassigned') <= Len(unassigned)]_vars

\* try_rescue_unassigned returned fewer blocks than it was given: two went
\* in, one was rescued by its hint, one came back
C8_Witness ==
  /\ pc = "fuzzy"
  /\ n = 3
  /\ Len(unassigned) = 1
  /\ \E k \in 1..Len(rescue_warnings) : rescue_warnings[k].kind = "rescued_hint"

\* ---------------------------------------------------------------------------
\* C9: one pass of the rescue loop puts a block that is not blank in exactly
\* one place, one list of code_map (appended once) or still_unassigned, and
\* leaves both as they were for a blank block; this covers the passes whose
\* duplicate check raises.
C9_RescuedToOnePlace ==
  [][(AtRescue /\ n' = n + 1) =>
       IF Strip(unassigned[n]) = <<>>
       THEN code_map' = code_map /\ still_unassigned' = still_unassigned
       ELSE \/ /\ code_map' = code_map
               /\ still_unassigned' = Append(still_unassigned, unassigned[n])
            \/ /\ AppendedOnce(code_map, code_map')
               /\ still_unassigned' = still_unassigned]_vars

\* the rescue loop has put one block in a list of code_map and another in
\* still_unassigned
C9_Witness ==
  /\ pc = "rescue"
  /\ n = 3
  /\ Len(still_unassigned) = 1
  /\ BlockCount(code_map) > 0
  /\ \E k \in 1..Len(rescue_warnings) :
       rescue_warnings[k].kind \in {"rescued_hint", "rescued_assumed", "rescued_heading",
                                    "fallback_assigned", "basename_assigned"}

\* ---------------------------------------------------------------------------
\* what the later tokens can read of the state of the call
Outcome(e) ==
  <<e.current_file, e.current_heading, e.skip_next_fence_for_file_structure, e.code_map,
    e.unassigned, e.warnings, e.heading_map>>

\* the call with the token at i taken out of the stream
WithoutToken(e) ==
  [e EXCEPT !.tokens = SubSeq(e.tokens, 1, e.i - 1)
                       \o SubSeq(e.tokens, e.i + 1, Len(e.tokens))]

\* C10: a token that makes the loop body raise is passed over: the loop
\* moves to the next token with current_file, current_heading, the skip flag
\* and every result as they were, and the tokens after it give what they
\* would give with the failing token out of the stream.
C10_FailingTokenPassedOver ==
  [][(AtToken /\ TokenRaises(Engine)) =>
       /\ pc' = "tokens"
       /\ i' = i + 1
       /\ UNCHANGED <<tokens, current_file, current_heading,
                      skip_next_fence_for_file_structure, file_paths, code_map, unassigned,
                      warnings, heading_map>>
       /\ Outcome(Loop(Engine)) = Outcome(Loop(WithoutToken(Engine)))]_vars

\* a fence whose content is not a string was passed over under a mapped
\* heading, and the heading is still the current one
C10_Witness ==
  /\ pc = "tokens"
  /\ fed = 2
  /\ i = 2
  /\ tokens[1].type = "fence"
  /\ tokens[1].corrupt
  /\ current_file = P_a_u
  /\ unassigned = <<>>
  /\ BlockCount(code_map) = 0

\* ---------------------------------------------------------------------------
\* C11: a token that makes the loop body raise leaves a trace in what the
\* pass returns: the step appends an entry to warnings or a block to
\* unassigned.
C11_FailureLeavesWarning ==
  [][(AtToken /\ TokenRaises(Engine)) =>
       (Len(warnings') > Len(warnings) \/ Len(unassigned') > Len(unassigned))]_vars

\* ---------------------------------------------------------------------------
\* every list of cm is the beginning of the list of the same key in cm2, and
\* the keys are the same in the same order
ListsExtended(cm, cm2) ==
  /\ Len(cm2) = Len(cm)
  /\ \A k \in 1..Len(cm) :
       /\ cm2[k].key = cm[k].key
       /\ Len(cm2[k].val) >= Len(cm[k].val)
       /\ SubSeq(cm2[k].val, 1, Len(cm[k].val)) = cm[k].val

\* C12: while the primary pass walks the tokens, a step changes code_map only
\* by appending one block at the end of one list: the blocks already in a
\* list stay where they are, so each list is in the order of the tokens that
\* produced its blocks.
C12_BlocksKeepTokenOrder ==
  [][AtToken =>
       /\ ListsExtended(code_map, code_map')
       /\ BlockCount(code_map') <= BlockCount(code_map) + 1]_vars

\* a list holds two blocks, the second one the text of the paragraph that was
\* walked last
C12_Witness ==
  /\ pc = "tokens"
  /\ i > Len(tokens)
  /\ tokens[1].type = "paragraph_open"
  /\ current_file # None
  /\ DictHas(code_map, current_file)
  /\ Len(DictGet(code_map, current_file)) = 2
  /\ DictGet(code_map, current_file)[2] = Strip(tokens[2].content)

\* ---------------------------------------------------------------------------
\* C19: a fence met under a heading that resolved to a file is stored as
\* content of that file: a flag armed by an earlier File Structure heading
\* does not consume it.
C19_SkipOnlyOwnFence ==
  [][(/\ AtToken
      /\ ~TokenRaises(Engine)
      /\ tokens[i].type = "fence"
      /\ current_file # None
      /\ DictHas(code_map, current_file)) =>
       /\ ~skip_next_fence_for_file_structure
       /\ Len(DictGet(code_map', current_file)) = Len(DictGet(code_map, current_file)) + 1]_vars

\* ===========================================================================
\* parse_ascii_tree_block: the ASCII tree to the list of entries
\* ===========================================================================

\* the box-drawing characters of a tree
VBar == "VBAR"
Tee == "TEE"
Ell == "ELL"
Dash == "DASH"

\* s.split(p, 1)[0]: what comes before the first occurrence of p
BeforeFirst(s, p) ==
  LET At(ks) == IF ks = {} THEN s
                ELSE SubSeq(s, 1, CHOOSE k \in ks : \A j \in ks : k <= j)
  IN  At({k \in 0..(Len(s) - Len(p)) : SubSeq(s, k + 1, k + Len(p)) = p})

\* clean_tree_line(raw_line): the name on the line, None for a line to skip
clean_tree_line(raw_line) ==
  LET Cut(content, mark) ==
        IF Contains(content, mark) THEN Strip(BeforeFirst(content, mark)) ELSE content
      Marked(content, has_trailing_slash) ==
        IF content = <<>> THEN None
        ELSE IF has_trailing_slash THEN content \o <<"/">> ELSE content
      Uncommented(content, has_trailing_slash) ==
        Marked(Strip(Cut(Cut(Cut(content, <<" ", "#">>), <<" ", "/", "/">>),
                         <<" ", "-", "-", " ">>)),
               has_trailing_slash)
      Named(content) ==
        IF content = <<>> THEN None
        ELSE IF EndsWith(content, <<"/">>)
        THEN Uncommented(RStripSet(content, {"/"}), TRUE)
        ELSE Uncommented(content, FALSE)
      Cleaned(line) ==
        Named(Strip(ReplaceChar(ReplaceAll(ReplaceChar(ReplaceChar(ReplaceChar(line,
                VBar, " "), Tee, " "), Ell, " "), <<Dash, Dash>>, <<" ", " ">>), Dash, " ")))
      Line(line) ==
        IF StartsWith(Strip(line), <<"#">>) THEN None ELSE Cleaned(line)
  IN  IF raw_line = <<>> \/ Strip(raw_line) = <<>> THEN None ELSE Line(RStrip(raw_line))

\* the indent level counted in connector glyphs only
IndentOfConnectors(line) ==
  Len(line) - Len(LStripSet(line, {VBar, Tee, Ell, Dash}))

\* calculate_indent_level(line): the number of leading tree characters
calculate_indent_level(line) ==
  Len(line) - Len(LStripSet(line, {" ", VBar, Tee, Ell, Dash}))

\* the stack popped only while the current indent is below the top's
RECURSIVE PopDeeperOnly(_, _)
PopDeeperOnly(current_indent, stk) ==
  IF stk # <<>> /\ current_indent < stk[Len(stk)].indent
  THEN PopDeeperOnly(current_indent, SubSeq(stk, 1, Len(stk) - 1))
  ELSE stk

\* build_directory_stack(current_indent, stack)
RECURSIVE build_directory_stack(_, _)
build_directory_stack(current_indent, stk) ==
  IF stk # <<>> /\ current_indent <= stk[Len(stk)].indent
  THEN build_directory_stack(current_indent, SubSeq(stk, 1, Len(stk) - 1))
  ELSE stk

\* should_treat_as_directory(line, files_always, dirs_always)
should_treat_as_directory(line, fa, da) == ~is_probably_file(line, fa, da)

\* the body of the loop of parse_ascii_tree_block for a line that is not
\* skipped: the entry and the stack after it
TreeLineBody(raw_line, cleaned_line, stk, ents, fa, da) ==
  LET Pushed(popped, full_path, indent_level) ==
        [entries |-> Append(ents, full_path),
         stack |-> IF should_treat_as_directory(cleaned_line, fa, da)
                   THEN Append(popped, [path |-> full_path, indent |-> indent_level])
                   ELSE popped]
      Built(popped, parent_path, indent_level) ==
        Pushed(popped,
               normalize_path_segment(IF parent_path # <<>>
                                      THEN parent_path \o <<"/">> \o cleaned_line
                                      ELSE cleaned_line),
               indent_level)
      Parent(popped, indent_level) ==
        Built(popped, IF popped # <<>> THEN popped[Len(popped)].path ELSE <<>>, indent_level)
      Indented(indent_level) == Parent(build_directory_stack(indent_level, stk), indent_level)
  IN  Indented(calculate_indent_level(raw_line))

\* normalize_entries_relative_to_root(entries, files_always, dirs_always)
normalize_entries_relative_to_root(ents, fa, da) ==
  IF ents = <<>> THEN <<>>
  ELSE LET Rooted(root) ==
             IF is_probably_file(PathName(root), fa, da) THEN ents
             ELSE [k \in 1..Len(ents) |->
                     IF k = 1 \/ StartsWith(ents[k], root \o <<"/">>) THEN ents[k]
                     ELSE root \o <<"/">> \o ents[k]]
       IN  Rooted(ents[1])

\* the stack parse_ascii_tree_block starts with
InitialStack == <<[path |-> <<>>, indent |-> 0]>>

\* the loop of parse_ascii_tree_block from line k on
RECURSIVE TreeLoop(_, _, _, _, _, _)
TreeLoop(lines, k, stk, ents, fa, da) ==
  IF k > Len(lines) THEN ents
  ELSE LET Next1(b) == TreeLoop(lines, k + 1, b.stack, b.entries, fa, da)
           Step(cleaned_line) ==
             IF cleaned_line = None THEN TreeLoop(lines, k + 1, stk, ents, fa, da)
             ELSE Next1(TreeLineBody(lines[k], cleaned_line, stk, ents, fa, da))
       IN  Step(clean_tree_line(lines[k]))

\* parse_ascii_tree_block(block_text, files_always, dirs_always)
parse_ascii_tree_block(block_text, fa, da) ==
  IF block_text = <<>> THEN <<>>
  ELSE normalize_entries_relative_to_root(
         TreeLoop(SplitLines(block_text), 1, InitialStack, <<>>, fa, da), fa, da)

\* ===========================================================================
\* validate_entry_path: the validation main applies to every parsed entry
\* ===========================================================================

\* the letters [A-Za-z]
Letters == (DOMAIN UpperToLower) \cup {UpperToLower[c] : c \in DOMAIN UpperToLower}

\* the characters of [\x00-\x1f\x7f] that a string of the model can hold
ControlChars == {NL, "\t"}

\* RESERVED_NAMES_PATTERN, the names in lower case
ReservedNames ==
  {<<"c", "o", "n">>, <<"p", "r", "n">>, <<"a", "u", "x">>, <<"n", "u", "l">>,
   <<"c", "l", "o", "c", "k", "$">>}
  \cup {<<"c", "o", "m", d>> : d \in {"1", "2", "3", "4", "5", "6", "7", "8", "9"}}
  \cup {<<"l", "p", "t", d>> : d \in {"1", "2", "3", "4", "5", "6", "7", "8", "9"}}

\* DANGEROUS_EXTENSIONS
DANGEROUS_EXTENSIONS ==
  {<<".", "e", "x", "e">>, <<".", "b", "a", "t">>, <<".", "c", "m", "d">>, <<".", "s", "h">>,
   <<".", "b", "i", "n">>, <<".", "a", "p", "p">>, <<".", "d", "m", "g">>,
   <<".", "p", "k", "g">>, <<".", "m", "s", "i">>, <<".", "s", "c", "r">>,
   <<".", "c", "o", "m">>, <<".", "j", "a", "r">>, <<".", "w", "a", "r">>,
   <<".", "e", "a", "r">>, <<".", "a", "p", "k">>, <<".", "i", "p", "a">>}

\* WINDOWS_DRIVE_PATTERN.match(entry)
IsWindowsDrive(entry) ==
  Len(entry) >= 3 /\ entry[1] \in Letters /\ entry[2] = ":" /\ entry[3] = "\\"

\* PROTOCOL_PATTERN.match(entry)
IsProtocol(entry) ==
  \E k \in 1..(Len(entry) - 3) :
    /\ \A j \in 1..k : entry[j] \in Letters
    /\ SubSeq(entry, k + 1, k + 3) = <<":", "/", "/">>

\* the test of one path component, "" for a component that passes
PartError(part) ==
  IF Lower(part) \in ReservedNames THEN "Reserved name not allowed"
  ELSE IF part[Len(part)] \in {" ", "."}
  THEN "Trailing spaces or dots not allowed in path components"
  ELSE IF \E k \in 1..Len(part) : part[k] \in {"<", ">", ":", "\"", "|", "?", "*"}
  THEN "Invalid characters in path component"
  ELSE ""

\* the tests of validate_entry_path that follow the one for absolute paths
PathChecks(entry) ==
  LET Bounded(parts) ==
        IF PathSuffix(entry) # <<>> /\ Lower(PathSuffix(entry)) \in DANGEROUS_EXTENSIONS
        THEN "Potentially dangerous file extension"
        ELSE IF Len(entry) > 200 THEN "Path too long (max 200 characters)"
        ELSE IF Len(parts) > 20 THEN "Path too deep (max 20 levels)"
        ELSE ""
      Components(parts, bad) ==
        IF bad # {} THEN PartError(parts[CHOOSE k \in bad : \A j \in bad : k <= j])
        ELSE Bounded(parts)
      Traversal(parts) ==
        IF \E k \in 1..Len(parts) : parts[k] = <<".", ".">>
        THEN "Parent directory traversal ('..') not allowed"
        ELSE Components(parts, {k \in 1..Len(parts) : PartError(parts[k]) # ""})
  IN  IF IsWindowsDrive(entry) THEN "Absolute Windows paths not allowed"
      ELSE IF StartsWith(entry, <<"\\", "\\">>) THEN "Windows UNC paths not allowed"
      ELSE IF IsProtocol(entry) THEN "URL protocols not allowed in paths"
      ELSE Traversal(PathParts(entry))

\* a validation that lets absolute paths through
ValidateWithoutAbsoluteCheck(entry) ==
  LET Stripped(e) ==
        IF e = <<>> THEN "Empty path after stripping whitespace"
        ELSE IF \E k \in 1..Len(e) : e[k] \in ControlChars
        THEN "Control characters not allowed in paths"
        ELSE PathChecks(e)
  IN  IF entry = <<>> \/ Strip(entry) = <<>> THEN "Empty path" ELSE Stripped(Strip(entry))

\* validate_entry_path(entry): the error message, "" where the code returns
\* None
validate_entry_path(entry) ==
  LET Stripped(e) ==
        IF e = <<>> THEN "Empty path after stripping whitespace"
        ELSE IF \E k \in 1..Len(e) : e[k] \in ControlChars
        THEN "Control characters not allowed in paths"
        ELSE IF StartsWith(e, <<"/">>) \/ StartsWith(e, <<"\\">>)
        THEN "Absolute paths are not allowed"
        ELSE PathChecks(e)
  IN  IF entry = <<>> \/ Strip(entry) = <<>> THEN "Empty path" ELSE Stripped(Strip(entry))

\* ===========================================================================
\* Library functions applied on their own
\* ===========================================================================

\* no run of main or of map_headings_to_files is under way
NoRun ==
  /\ tree_files = <<>>
  /\ strip_hints = FALSE
  /\ interactive = FALSE
  /\ conflict_strategy = "first"
  /\ fallback_level = "low"
  /\ tokens = <<>>
  /\ fed = 0
  /\ i = 1
  /\ current_file = None
  /\ current_heading = None
  /\ skip_next_fence_for_file_structure = FALSE
  /\ file_paths = <<>>
  /\ code_map = <<>>
  /\ unassigned = <<>>
  /\ warnings = <<>>
  /\ heading_map = <<>>
  /\ mapped_code_map = <<>>
  /\ items = <<>>
  /\ n = 1
  /\ still_unassigned = <<>>
  /\ rescue_warnings = <<>>
  /\ written = <<>>

\* what a library call leaves alone
run_vars ==
  <<strip_hints, interactive, conflict_strategy, fallback_level, fed, engine_vars, main_vars>>

\* the lists of at most len elements of set
SeqsUpTo(set, len) == UNION {[1..k -> set] : k \in 0..len}

\* ---------------------------------------------------------------------------
\* parse_ascii_tree_block on a tree text, line by line

MaxTreeLines == 3

L_dir == <<"a", "/">>
L_spaces_file == <<" ", " ">> \o S_u_py
L_tee_dir == <<Tee, Dash, Dash, " ", "b", "/">>
L_ell_file == <<VBar, " ", " ", " ", Ell, Dash, Dash, " ">> \o S_u_py
L_path_file == <<"a", "/">> \o S_u_py
L_up == <<".", ".">>
L_rooted_file == <<"/">> \o S_u_py
L_comment == <<"#", " ", "x">>
L_commented_file == S_u_py \o <<" ", "#", " ", "x">>
L_blank == <<" ">>

\* the lines a tree text is made of
TreeLines ==
  {L_dir, L_spaces_file, L_tee_dir, L_ell_file, L_path_file, L_up, L_rooted_file, L_comment,
   L_commented_file, L_blank}

TreeTexts == {Join(ls, <<NL>>) : ls \in SeqsUpTo(TreeLines, MaxTreeLines)}

\* the override sets of the calls
TreeOverrides == {{}, {S_u_py}}

InitTree ==
  /\ pc = "tree"
  /\ call = "parse_ascii_tree_block"
  /\ given \in TreeTexts
  /\ files_always = {}
  /\ dirs_always \in TreeOverrides
  /\ result = <<>>
  /\ line_num = 1
  /\ stack = InitialStack
  /\ entries = <<>>
  /\ NoRun

\* if not block_text: return []
TreeEmpty ==
  /\ pc = "tree"
  /\ given = <<>>
  /\ pc' = "parsed"
  /\ result' = <<>>
  /\ UNCHANGED <<call, given, tree_files, files_always, dirs_always, line_num, stack, entries, run_vars>>

\* lines = block_text.splitlines(); the loop starts
TreeStart ==
  /\ pc = "tree"
  /\ given # <<>>
  /\ pc' = "lines"
  /\ UNCHANGED <<call, given, result, tree_files, files_always, dirs_always, line_num, stack, entries,
                 run_vars>>

\* a line of the loop is due
AtTreeLine == pc = "lines" /\ line_num <= Len(SplitLines(given))

\* a blank line or a comment line: continue
TreeLineSkipped ==
  /\ AtTreeLine
  /\ clean_tree_line(SplitLines(given)[line_num]) = None
  /\ line_num' = line_num + 1
  /\ UNCHANGED <<pc, call, given, result, tree_files, files_always, dirs_always, stack, entries, run_vars>>

\* a line with a name: the entry is appended, a directory is pushed
TreeLine ==
  /\ AtTreeLine
  /\ clean_tree_line(SplitLines(given)[line_num]) # None
  /\ LET Taken(b) == entries' = b.entries /\ stack' = b.stack
         Line(raw_line) ==
           Taken(TreeLineBody(raw_line, clean_tree_line(raw_line), stack, entries,
                              files_always, dirs_always))
     IN  Line(SplitLines(given)[line_num])
  /\ line_num' = line_num + 1
  /\ UNCHANGED <<pc, call, given, result, tree_files, files_always, dirs_always, run_vars>>

\* after the loop: the entries are made relative to the root and returned
TreeReturn ==
  /\ pc = "lines"
  /\ line_num > Len(SplitLines(given))
  /\ pc' = "parsed"
  /\ result' = normalize_entries_relative_to_root(entries, files_always, dirs_always)
  /\ UNCHANGED <<call, given, tree_files, files_always, dirs_always, line_num, stack, entries, run_vars>>

\* parse_ascii_tree_block has returned
TreeParsed == call = "parse_ascii_tree_block" /\ pc = "parsed"

\* [entry for entry in tree_entries if not validate_entry_path(entry)]
ValidatedEntries(tree_entries) ==
  SelectSeq(tree_entries, LAMBDA entry : validate_entry_path(entry) = "")

\* main with the entries the parser returned (fallback level low): the
\* entries validate_entry_path rejects are dropped; main exits when none is
\* left, and under --strict when one was dropped
ValidateEntries ==
  /\ TreeParsed
  /\ \E strict \in BOOLEAN :
       LET Kept(validated) ==
             IF (strict /\ Len(validated) < Len(result)) \/ validated = <<>>
             THEN pc' = "exit" /\ tree_files' = tree_files
             ELSE pc' = "validated" /\ tree_files' = validated
       IN  Kept(ValidatedEntries(result))
  /\ UNCHANGED <<call, given, result, files_always, dirs_always, line_num, stack, entries,
                 run_vars>>

NextTree ==
  \/ TreeEmpty
  \/ TreeStart
  \/ TreeLineSkipped
  \/ TreeLine
  \/ TreeReturn
  \/ ValidateEntries

SpecTree == InitTree /\ [][NextTree]_vars

\* the paths of the ancestor directories of path p (Path(p).parents without ".")
Ancestors(p) ==
  LET Of(parts) == {JoinParts(SubSeq(parts, 1, k)) : k \in 1..(Len(parts) - 1)}
  IN  Of(PathParts(p))

\* C13: every ancestor directory of each file entry parse_ascii_tree_block
\* returns is itself one of the returned entries.
C13_NoOrphanFile ==
  TreeParsed =>
    \A k \in 1..Len(result) :
      is_probably_file(PathName(result[k]), files_always, dirs_always)
        => Ancestors(result[k]) \subseteq Range(result)

TreeValidated == call = "parse_ascii_tree_block" /\ pc = "validated"

MaxSegmentLen == 5

\* the characters normalize_path_segment tells apart, and a letter
SegmentChars == {" ", ".", "/", "\\", "a"}

SegmentStrings == SeqsUpTo(SegmentChars, MaxSegmentLen)

\* what a call of a function of one argument leaves alone
call_frame ==
  <<call, tree_files, files_always, dirs_always, line_num, stack, entries, run_vars>>

InitNormalize ==
  /\ pc = "segment"
  /\ call = "normalize_path_segment"
  /\ given \in SegmentStrings
  /\ result = <<>>
  /\ files_always = {}
  /\ dirs_always = {}
  /\ line_num = 1
  /\ stack = <<>>
  /\ entries = <<>>
  /\ NoRun

\* normalize_path_segment(seg)
NormalizeCall ==
  /\ call = "normalize_path_segment"
  /\ pc = "segment"
  /\ pc' = "normalized"
  /\ result' = normalize_path_segment(given)
  /\ UNCHANGED <<given, call_frame>>

\* normalize_path_segment applied to what it returned
NormalizeAgain ==
  /\ call = "normalize_path_segment"
  /\ pc = "normalized"
  /\ pc' = "renormalized"
  /\ given' = result
  /\ result' = normalize_path_segment(result)
  /\ UNCHANGED call_frame

NextNormalize ==
  \/ NormalizeCall
  \/ NormalizeAgain

SpecNormalize == InitNormalize /\ [][NextNormalize]_vars

\* C15: normalize_path_segment applied to its own result returns that result
\* unchanged.
C15_NormalizeIdempotent ==
  (call = "normalize_path_segment" /\ pc = "renormalized") => result = given

\* ---------------------------------------------------------------------------
\* is_probably_file on a name and the two override sets

S_notes == <<"n", "o", "t", "e", "s">>
S_NOTES == <<"N", "O", "T", "E", "S">>
S_Makefile == <<"M", "a", "k", "e", "f", "i", "l", "e">>
S_makefile == <<"m", "a", "k", "e", "f", "i", "l", "e">>
S_U_PY == <<"U", ".", "P", "Y">>
S_git == <<".", "g", "i", "t">>
S_env == <<".", "e", "n", "v">>
S_bashrc == <<".", "b", "a", "s", "h", "r", "c">>
S_license == <<"L", "I", "C", "E", "N", "S", "E">>

\* the names classified
ClassifiedNames ==
  {<<>>, <<" ">>, S_notes, S_NOTES \o <<"/">>, S_notes \o <<"\\">>, <<"a", "/">> \o S_notes,
   S_Makefile, S_Makefile \o <<"/">>, S_u_py, <<" ">> \o S_u_py \o <<" ">>, S_git, S_env,
   S_bashrc, S_license, <<".">>}

\* the names an override set is made of
OverrideNames == {S_NOTES, S_makefile, S_U_PY}

InitClassify ==
  /\ pc = "name"
  /\ call = "is_probably_file"
  /\ given \in ClassifiedNames
  /\ files_always \in SUBSET OverrideNames
  /\ dirs_always \in SUBSET OverrideNames
  /\ result = <<>>
  /\ line_num = 1
  /\ stack = <<>>
  /\ entries = <<>>
  /\ NoRun

\* is_probably_file(name, files_always, dirs_always)
Classify ==
  /\ call = "is_probably_file"
  /\ pc = "name"
  /\ pc' = "classified"
  /\ result' = is_probably_file(given, files_always, dirs_always)
  /\ UNCHANGED <<given, call_frame>>

NextClassify == Classify

SpecClassify == InitClassify /\ [][NextClassify]_vars

\* is_probably_file has returned
Classified == call = "is_probably_file" /\ pc = "classified"

\* the seven rules for the stripped name nm, each with the rules before it
\* not matching; sets are the override sets in lower case
SevenSteps(nm, base, fa, da, file) ==
  LET Separator == EndsWith(nm, <<"/">>) \/ EndsWith(nm, <<"\\">>)
      InDirs == ~Separator /\ Lower(base) \in da
      InFiles == ~Separator /\ ~InDirs /\ Lower(base) \in fa
      Free == ~Separator /\ ~InDirs /\ ~InFiles
      Special == Free /\ is_special_file(base)
      Dotted == Free /\ ~Special /\ Contains(base, <<".">>) /\ Len(base) > 1
      Plain == Free /\ ~Special /\ ~Dotted
  IN  /\ Separator => ~file
      /\ InDirs => ~file
      /\ InFiles => file
      /\ Special => file
      /\ Dotted =>
           (file <=> ~(Head(base) = "." /\ DotCount(base) = 1 /\ Lower(base) \in HiddenDirNames))
      /\ (Plain /\ Lower(base) \in file_like_names) => file
      /\ (Plain /\ Lower(base) \notin file_like_names) => ~file

\* C16: is_probably_file answers by the first rule that matches, in the order
\* trailing separator (directory), dirs_always (directory), files_always
\* (file), special filename (file), name with a dot (file unless a hidden
\* directory name), file-like name (file), otherwise directory; the override
\* sets are compared with the basename in lower case on both sides.
C16_SevenStepOrder ==
  Classified =>
    SevenSteps(Strip(given), PathName(Strip(given)), {Lower(x) : x \in files_always},
               {Lower(x) : x \in dirs_always}, result)

\* Makefile, a special filename, is named in both override sets in lower
\* case, and is classified as a directory
C16_Witness ==
  /\ Classified
  /\ given = S_Makefile
  /\ S_makefile \in files_always
  /\ S_makefile \in dirs_always
  /\ is_special_file(given)
  /\ result = FALSE

\* ---------------------------------------------------------------------------
\* resolve_conflict_batch on a hint, a list of candidates and a strategy

MaxCandidates == 3

P_a_b_c == <<"a", "/", "b", "/", "c">>

\* the candidate paths: the longest, the shortest and the deepest differ
BatchPaths == {P_a_u, S_u_py, P_a_b_c}

\* the strategies passed: the five of --conflict-strategy and an unknown one
BatchStrategies == Strategies \cup {"newest"}

InitBatch ==
  /\ pc = "conflict"
  /\ call = "resolve_conflict_batch"
  /\ given \in [hint : {S_u_py, S_zz}, candidates : SeqsUpTo(BatchPaths, MaxCandidates),
                strategy : BatchStrategies]
  /\ result = <<>>
  /\ files_always = {}
  /\ dirs_always = {}
  /\ line_num = 1
  /\ stack = <<>>
  /\ entries = <<>>
  /\ NoRun

\* resolve_conflict_batch(hint, candidates, strategy)
BatchResolve ==
  /\ call = "resolve_conflict_batch"
  /\ pc = "conflict"
  /\ pc' = "resolved"
  /\ result' = resolve_conflict_batch(given.hint, given.candidates, given.strategy)
  /\ UNCHANGED <<given, call_frame>>

NextBatch == BatchResolve

SpecBatch == InitBatch /\ [][NextBatch]_vars

\* resolve_conflict_batch has returned from a call with strategy skip
SkipResolved ==
  call = "resolve_conflict_batch" /\ pc = "resolved" /\ given.strategy = "skip"

\* C17: with strategy skip resolve_conflict_batch returns None, whatever the
\* hint and the candidates.
C17_SkipAlwaysNone == SkipResolved => result = None

\* C17 (amended): with strategy skip resolve_conflict_batch returns None
\* unless there is exactly one candidate, which it returns.
C17_SkipNoneUnlessSingle ==
  SkipResolved =>
    result = IF Len(given.candidates) = 1 THEN given.candidates[1] ELSE None

\* skip was applied to three different candidates and gave None
C17_Witness ==
  /\ SkipResolved
  /\ given.candidates = <<P_a_u, S_u_py, P_a_b_c>>
  /\ result = None

\* ---------------------------------------------------------------------------
\* process_fence_block on one fence, with code_map as map_headings_to_files
\* builds it from the tree

\* the info strings and the raw contents of the fences processed
FenceInfos == {None, S_u, S_U_py, S_go}
FenceContents == {C_plain, C_hint_short, C_hint_full, C_hint_other, C_indented}

InitFence ==
  /\ pc = "fence"
  /\ call = "process_fence_block"
  /\ tree_files \in Trees
  /\ files_always = {}
  /\ dirs_always = {}
  /\ strip_hints \in BOOLEAN
  /\ interactive = FALSE
  /\ conflict_strategy = "first"
  /\ fallback_level = "low"
  /\ given \in [fence_info : FenceInfos, fence_content : FenceContents]
  /\ result = <<>>
  /\ tokens = <<>>
  /\ fed = 0
  /\ i = 1
  /\ current_file \in {None, P_a_u}
  /\ current_heading = current_file
  /\ skip_next_fence_for_file_structure = FALSE
  /\ code_map = InitialCodeMap(tree_files, files_always, dirs_always)
  /\ file_paths = DictKeys(code_map)
  /\ unassigned = <<>>
  /\ warnings = <<>>
  /\ heading_map = <<>>
  /\ mapped_code_map = <<>>
  /\ items = <<>>
  /\ n = 1
  /\ still_unassigned = <<>>
  /\ rescue_warnings = <<>>
  /\ written = <<>>
  /\ line_num = 1
  /\ stack = <<>>
  /\ entries = <<>>

\* the info and the content the fence branch passes on for the fence
FenceArgs ==
  [fence_info |-> Strip(given.fence_info),
   fence_content |-> FenceContent(Token("fence", given.fence_content, given.fence_info,
                                        FALSE))]

\* the fence branch's call: fence_processor.process_fence_block(info, content,
\* current_file)
ProcessFence ==
  /\ call = "process_fence_block"
  /\ pc = "fence"
  /\ pc' = "processed"
  /\ LET Processed(fp) ==
           /\ code_map' = fp.code_map
           /\ unassigned' = fp.unassigned
           /\ warnings' = fp.warnings
           /\ result' = fp.ret
     IN  Processed(process_fence_block(
                     [code_map |-> code_map, unassigned |-> unassigned, warnings |-> warnings,
                      ret |-> FALSE],
                     file_paths, FenceArgs.fence_info, FenceArgs.fence_content,
                     current_file, strip_hints))
  /\ UNCHANGED <<call, given, args, fed, tokens, i, current_file, current_heading,
                 skip_next_fence_for_file_structure, file_paths, heading_map, main_vars,
                 line_num, stack, entries>>

NextFence == ProcessFence

SpecFence == InitFence /\ [][NextFence]_vars

\* the fence of the call has no current file and an info string that neither
\* names a basename of the tree nor gives a candidate
ZeroCandidateFence ==
  /\ call = "process_fence_block"
  /\ current_file = None
  /\ FenceArgs.fence_info # <<>>
  /\ infer_targets_from_fence_info(FenceArgs.fence_info, file_paths) = <<>>
  /\ Len(find_by_basename(file_paths, PathName(FenceArgs.fence_info))) # 1

\* the paths the hint on the first line of the fence stands for: the exact
\* match, or else the partial matches
HintTargets ==
  LET Exact(hint, exact_match) ==
        IF exact_match # None THEN <<exact_match>> ELSE find_by_partial_path(file_paths, hint)
      Of(hint) == IF hint = <<>> THEN <<>> ELSE Exact(hint, find_by_exact_path(file_paths, hint))
  IN  Of(extract_hint_and_body(FenceArgs.fence_content).hint)

\* C18: a fence with no current file whose info string gives no candidate is
\* handled by the hint on its first line: when the hint stands for exactly
\* one path of the tree, the block is in the list of that path.
C18_ZeroCandidatesFallToHint ==
  (pc = "processed" /\ ZeroCandidateFence /\ Len(HintTargets) = 1) =>
    Len(DictGet(code_map, HintTargets[1])) = 1

\* ===========================================================================
\* extract_file_structure_block, and main from the document to the primary pass
\* ===========================================================================

S_structure == <<"s", "t", "r", "u", "c", "t", "u", "r", "e">>

\* STRUCTURE_KEYWORDS
STRUCTURE_KEYWORDS ==
  {S_structure, <<"f", "i", "l", "e", " ">> \o S_structure,
   <<"f", "o", "l", "d", "e", "r", " ">> \o S_structure,
   <<"d", "i", "r", "e", "c", "t", "o", "r", "y", " ">> \o S_structure,
   <<"p", "r", "o", "j", "e", "c", "t", " ">> \o S_structure}

\* str.split(): the words between runs of whitespace
SplitWords(s) ==
  IF Strip(s) = <<>> THEN <<>> ELSE SplitOn(CollapseWhitespace(Strip(s)), " ")

\* is_structure_heading(content)
is_structure_heading(content) ==
  LET Of(content_lower) ==
        \/ \E keyword \in STRUCTURE_KEYWORDS : Contains(content_lower, keyword)
        \/ Len(SplitWords(content_lower)) >= 2 /\ S_structure \in Range(SplitWords(content_lower))
        \/ Contains(content_lower, S_structure) /\ Len(content_lower) < 50
  IN  content # <<>> /\ Of(Strip(Lower(content)))

\* find_structure_heading_index(tokens): the 1-based index, 0 for None
find_structure_heading_index(toks) ==
  LET First(found) ==
        IF found = {} THEN 0 ELSE CHOOSE k \in found : \A j \in found : k <= j
  IN  First({k \in 1..(Len(toks) - 1) :
               /\ toks[k].type = "heading_open"
               /\ toks[k + 1].type = "inline"
               /\ is_structure_heading(toks[k + 1].content)})

\* extract_code_block_after_heading(tokens, heading_index): the index of the
\* fence whose content is returned, 0 for None.  The headings of a document
\* of the model are all of one level, so the next heading ends the search.
StructureFenceIndex(toks, heading_index) ==
  LET First(stops) ==
        IF stops = {} THEN 0
        ELSE LET At(k) == IF toks[k].type = "fence" THEN k ELSE 0
             IN  At(CHOOSE k \in stops : \A j \in stops : k <= j)
  IN  First({k \in (heading_index + 2)..Len(toks) :
               toks[k].type \in {"heading_open", "fence"}})

extract_code_block_after_heading(toks, heading_index) ==
  LET Of(k) == IF k = 0 THEN None ELSE toks[k].content
  IN  Of(StructureFenceIndex(toks, heading_index))

\* validate_structure_content(content)
validate_structure_content(content) == IF content = <<>> THEN None ELSE Strip(content)

\* extract_file_structure_block(md_text, tokens) where a structure heading
\* with a fence of its own is found (Method 1); None stands for the documents
\* that are left to the searches in md_text
extract_file_structure_block(toks) ==
  LET Found(heading_index) ==
        IF heading_index = 0 THEN None
        ELSE validate_structure_content(extract_code_block_after_heading(toks, heading_index))
  IN  IF toks = <<>> THEN None ELSE Found(find_structure_heading_index(toks))

\* ---------------------------------------------------------------------------
\* the documents: a structure heading with the tree in a fence, and blocks
\* around it

S_ProjectStructure == <<"P", "r", "o", "j", "e", "c", "t", " ">> \o S_structure
S_DirectoryStructure ==
  <<"D", "i", "r", "e", "c", "t", "o", "r", "y", " ", "S", "t", "r", "u", "c", "t", "u", "r", "e">>

StructureHeadings == {S_FileStructure, S_ProjectStructure, S_DirectoryStructure}

\* tree texts: indented by spaces, drawn with connectors, and a single file
B_spaces == <<"a", "/", NL, " ", " ">> \o S_u_py \o <<NL>>
B_drawn == <<"a", "/", NL, Ell, Dash, Dash, " ">> \o S_u_py \o <<NL>>
B_file == S_u_py \o <<NL>>

TreeBlocks == {B_spaces, B_drawn, B_file}

\* what stands before the structure heading and after its fence
BlocksBefore == {<<>>, OtherGroup, ParagraphGroup(S_p, FALSE)}
BlocksAfter ==
  {<<>>, FenceGroup(None, C_plain, FALSE), FenceGroup(None, C_hint_full, FALSE),
   HeadingGroup(P_a_u, FALSE) \o FenceGroup(None, C_plain, FALSE),
   HeadingGroup(S_u_py, FALSE) \o FenceGroup(S_go, C_hint_short, FALSE)}

StructureDocs ==
  {before \o HeadingGroup(h, FALSE) \o FenceGroup(None, b, FALSE) \o after :
     before \in BlocksBefore, h \in StructureHeadings, b \in TreeBlocks, after \in BlocksAfter}

InitStructure ==
  /\ pc = "document"
  /\ call = "extract_file_structure_block"
  /\ tokens \in StructureDocs
  /\ strip_hints \in BOOLEAN
  /\ tree_files = <<>>
  /\ files_always = {}
  /\ dirs_always = {}
  /\ interactive = FALSE
  /\ conflict_strategy = "first"
  /\ fallback_level = "low"
  /\ given = <<>>
  /\ result = <<>>
  /\ fed = 0
  /\ i = 1
  /\ current_file = None
  /\ current_heading = None
  /\ skip_next_fence_for_file_structure = FALSE
  /\ file_paths = <<>>
  /\ code_map = <<>>
  /\ unassigned = <<>>
  /\ warnings = <<>>
  /\ heading_map = <<>>
  /\ mapped_code_map = <<>>
  /\ items = <<>>
  /\ n = 1
  /\ still_unassigned = <<>>
  /\ rescue_warnings = <<>>
  /\ written = <<>>
  /\ line_num = 1
  /\ stack = <<>>
  /\ entries = <<>>

\* what main leaves alone before the primary pass
structure_frame ==
  <<call, given, tokens, files_always, dirs_always, strip_hints, interactive, conflict_strategy,
    fallback_level, fed, i, current_file, current_heading, skip_next_fence_for_file_structure,
    file_paths, items, n, still_unassigned, rescue_warnings, written, line_num, stack, entries>>

\* fs_block = extract_file_structure_block(md_text, tokens); without a block
\* main exits (fallback level low)
ExtractStructure ==
  /\ call = "extract_file_structure_block"
  /\ pc = "document"
  /\ result' = extract_file_structure_block(tokens)
  /\ pc' = IF result' = None THEN "exit" ELSE "extracted"
  /\ UNCHANGED <<structure_frame, tree_files, code_map, unassigned, warnings, heading_map,
                 mapped_code_map>>

\* tree_entries = parse_ascii_tree_block(fs_block, ...), then the validation
\* of the entries
ParseStructure ==
  /\ call = "extract_file_structure_block"
  /\ pc = "extracted"
  /\ \E strict \in BOOLEAN :
       LET Kept(tree_entries, validated) ==
             IF (strict /\ Len(validated) < Len(tree_entries)) \/ validated = <<>>
             THEN pc' = "exit" /\ tree_files' = tree_files
             ELSE pc' = "main" /\ tree_files' = validated
           Parsed(tree_entries) == Kept(tree_entries, ValidatedEntries(tree_entries))
       IN  Parsed(parse_ascii_tree_block(result, files_always, dirs_always))
  /\ UNCHANGED <<structure_frame, result, code_map, unassigned, warnings, heading_map,
                 mapped_code_map>>

\* the call of map_headings_to_files on the tokens of the document
MapStructure ==
  /\ call = "extract_file_structure_block"
  /\ pc = "main"
  /\ MainMapped(map_headings_to_files(tokens, tree_files, files_always, dirs_always,
                                      strip_hints))
  /\ pc' = "mapped"
  /\ UNCHANGED <<structure_frame, result, tree_files>>

NextStructure ==
  \/ ExtractStructure
  \/ ParseStructure
  \/ MapStructure

SpecStructure == InitStructure /\ [][NextStructure]_vars

\* the content of the fence that supplied the tree, as the fence branch of
\* the primary pass passes it on
TreeFenceContent ==
  FenceContent(tokens[StructureFenceIndex(tokens, find_structure_heading_index(tokens))])

\* C20: after the primary pass the text of the fence that supplied the tree
\* is in no list of code_map and not in unassigned.
C20_TreeFenceNotContent ==
  (call = "extract_file_structure_block" /\ pc = "mapped") =>
    /\ TreeFenceContent \notin Range(unassigned)
    /\ \A k \in 1..Len(code_map) : TreeFenceContent \notin Range(code_map[k].val)

\* ===========================================================================
\* the heading branch on one heading whose text is a file path of the tree
\* ===========================================================================

P_a_my_u == <<"a", "/", "m", "y", "_", "u", ".", "p", "y">>
P_a_myu == <<"a", "/", "m", "y", "u", ".", "p", "y">>
S_env_file == <<"e", "n", "v", ".", "p", "y">>
S_dot_env_file == <<".", "e", "n", "v", ".", "p", "y">>
S_init_py == <<"_", "_", "i", "n", "i", "t", "_", "_", ".", "p", "y">>

\* file paths with underscores, with a leading dot, and plain ones
HeadingPaths == {P_a_u, S_u_py, P_a_my_u, P_a_myu, S_dot_env_file, S_env_file, S_init_py}

\* the trees: one or two different paths
HeadingTrees ==
  {t \in SeqsUpTo(HeadingPaths, 2) : t # <<>> /\ (Len(t) = 2 => t[1] # t[2])}

InitHeading ==
  /\ pc = "heading"
  /\ call = "map_heading_to_file"
  /\ tree_files \in HeadingTrees
  /\ files_always = {}
  /\ dirs_always = {}
  /\ strip_hints = FALSE
  /\ interactive = FALSE
  /\ conflict_strategy = "first"
  /\ fallback_level = "low"
  /\ code_map = InitialCodeMap(tree_files, files_always, dirs_always)
  /\ file_paths = DictKeys(code_map)
  /\ given \in Range(file_paths)
  /\ result = <<>>
  /\ tokens = HeadingGroup(given, FALSE)
  /\ fed = 1
  /\ i = 1
  /\ current_file \in {None} \cup Range(file_paths)
  /\ current_heading = current_file
  /\ skip_next_fence_for_file_structure = FALSE
  /\ unassigned = <<>>
  /\ warnings = <<>>
  /\ heading_map = <<>>
  /\ mapped_code_map = <<>>
  /\ items = <<>>
  /\ n = 1
  /\ still_unassigned = <<>>
  /\ rescue_warnings = <<>>
  /\ written = <<>>
  /\ line_num = 1
  /\ stack = <<>>
  /\ entries = <<>>

\* the loop body at the heading_open token of the heading
ResolveHeading ==
  /\ call = "map_heading_to_file"
  /\ pc = "heading"
  /\ pc' = "resolved"
  /\ Becomes(HeadingBranch(Engine))
  /\ UNCHANGED <<args, fed, main_vars, call_vars>>

NextHeading == ResolveHeading

SpecHeading == InitHeading /\ [][NextHeading]_vars

\* C21: a heading whose text is literally a file path P of the tree resolves
\* at the exact stage (no message of a later stage) and sets current_file to P.
C21_LiteralPathResolvesToItself ==
  (call = "map_heading_to_file" /\ pc = "resolved") =>
    /\ current_file = given
    /\ warnings = <<>>

\* ---------------------------------------------------------------------------
\* headings that resolve to no file (Spec)

\* the cleaned text of the heading at token i
HeadingClean(e) == clean_markdown_formatting(normalize_path_string(InlineText(e)))

\* a heading that goes through the cascade is at token i
AtCascadeHeading ==
  /\ AtToken
  /\ ~TokenRaises(Engine)
  /\ tokens[i].type = "heading_open"
  /\ Lower(HeadingClean(Engine)) # Lower(S_FileStructure)

\* the partial-path stage finds more than one file for the heading at token i
AmbiguousPartial ==
  /\ find_by_exact_path(file_paths, HeadingClean(Engine)) = None
  /\ Len(find_by_partial_path(file_paths, HeadingClean(Engine))) > 1

\* no stage of the cascade succeeds for the heading at token i
NoStageSucceeds ==
  /\ find_by_exact_path(file_paths, HeadingClean(Engine)) = None
  /\ find_by_partial_path(file_paths, HeadingClean(Engine)) = <<>>
  /\ Len(find_by_basename(file_paths, PathName(HeadingClean(Engine)))) # 1
  /\ find_by_fuzzy_match(file_paths, HeadingClean(Engine), 8, 10, 1) = <<>>

\* a block that names no file itself is at token i: a paragraph, or a fence
\* without info string and without hint line
AtAnonymousBlock ==
  /\ AtToken
  /\ ~TokenRaises(Engine)
  /\ \/ tokens[i].type = "paragraph_open"
     \/ /\ tokens[i].type = "fence"
        /\ Strip(tokens[i].info) = <<>>
        /\ ~extract_hint_and_body(FenceContent(tokens[i])).has_hint

\* C22: a heading for which no stage succeeds, or for which the partial-path
\* stage finds several files, leaves current_file none and adds a warning;
\* and while current_file is none a block that names no file itself is
\* appended to no file.
C22_UnresolvedHeadingClearsFile ==
  [][/\ (AtCascadeHeading /\ (AmbiguousPartial \/ NoStageSucceeds)) =>
          /\ current_file' = None
          /\ Len(warnings') = Len(warnings) + 1
          /\ warnings'[Len(warnings')].glyph = "warn"
     /\ (AtAnonymousBlock /\ current_file = None) => code_map' = code_map]_vars

\* an ambiguous heading u.py came after a heading that had resolved to a file,
\* and the anonymous fence after it went to unassigned
C22_Witness ==
  /\ pc = "tokens"
  /\ i > Len(tokens)
  /\ tree_files = TreeAmbiguous
  /\ heading_map # <<>>
  /\ current_file = None
  /\ tokens[1].type = "fence"
  /\ unassigned # <<>>
  /\ \E k \in 1..Len(warnings) : warnings[k].kind = "heading_ambiguous"

\* C23: heading_map is write-once per target: an entry, once set, keeps its
\* value through every later step of the pass.
C23_HeadingMapWriteOnce ==
  [][\A k \in 1..Len(heading_map) :
       /\ DictHas(heading_map', heading_map[k].key)
       /\ DictGet(heading_map', heading_map[k].key) = heading_map[k].val]_vars

\* ===========================================================================
\* infer_targets_from_fence_info on an info string and a list of file paths
\* ===========================================================================

MaxEntries == 3

P_a_Makefile == <<"a", "/">> \o S_Makefile
S_python_a_u == <<"p", "y", "t", "h", "o", "n", " ">> \o P_a_u

InferPaths == {S_Makefile, P_a_Makefile, P_a_u, P_b_U, S_u_py}
InferInfos == {S_makefile, S_U_py, S_u, P_a, S_zz, S_python_a_u}

\* the lists of different paths, as the keys of code_map are
InferEntries ==
  {t \in SeqsUpTo(InferPaths, MaxEntries) :
     \A j, k \in 1..Len(t) : j # k => t[j] # t[k]}

InitInfer ==
  /\ pc = "info"
  /\ call = "infer_targets_from_fence_info"
  /\ given \in [info : InferInfos, tree_entries : InferEntries]
  /\ result = <<>>
  /\ files_always = {}
  /\ dirs_always = {}
  /\ line_num = 1
  /\ stack = <<>>
  /\ entries = <<>>
  /\ NoRun

\* infer_targets_from_fence_info(info, tree_entries)
Infer ==
  /\ call = "infer_targets_from_fence_info"
  /\ pc = "info"
  /\ pc' = "inferred"
  /\ result' = infer_targets_from_fence_info(given.info, given.tree_entries)
  /\ UNCHANGED <<given, call_frame>>

NextInfer == Infer

SpecInfer == InitInfer /\ [][NextInfer]_vars

Inferred == call = "infer_targets_from_fence_info" /\ pc = "inferred"

\* the entries whose basename or full path equals the normalized info
ExactEntries ==
  {e \in Range(given.tree_entries) :
     \/ Lower(PathName(e)) = normalize_string(given.info)
     \/ Lower(e) = normalize_string(given.info)}

\* the entries with a partial score above 0
ScoredEntries ==
  {e \in Range(given.tree_entries) : PartialScore(normalize_string(given.info), e) > 0}

\* the exact or the partial stage decides the call
StageDecides == ExactEntries # {} \/ ScoredEntries # {}

\* C24: when the exact or the partial stage decides, the result holds every
\* entry that matches at that stage (the exact matches if there are any,
\* otherwise the entries with score > 0 in descending order of score), has no
\* duplicates and holds entries of the list only.
C24_EveryMatchReturned ==
  (Inferred /\ StageDecides) =>
    /\ Range(result) = IF ExactEntries # {} THEN ExactEntries ELSE ScoredEntries
    /\ \A j, k \in 1..Len(result) : j # k => result[j] # result[k]
    /\ ExactEntries = {} =>
         \A j, k \in 1..Len(result) :
           j < k => PartialScore(normalize_string(given.info), result[j])
                      >= PartialScore(normalize_string(given.info), result[k])

\* ===========================================================================
\* the parents the tree parser gives the lines (SpecTree)
\* ===========================================================================

TreeTextLines == SplitLines(given)

\* line j of the text is not skipped
NamedLine(j) == clean_tree_line(TreeTextLines[j]) # None

\* the indent level of line j, and whether it is classified as a directory
LineIndent(j) == calculate_indent_level(TreeTextLines[j])
LineIsDirectory(j) ==
  should_treat_as_directory(clean_tree_line(TreeTextLines[j]), files_always, dirs_always)

\* the place of line j's path in entries
EntryIndex(j) == Cardinality({m \in 1..j : NamedLine(m)})

\* the earlier directory lines with a smaller indent than line k that no
\* line in between, of equal or smaller indent than theirs, has closed
OpenDirectories(k) ==
  {j \in 1..(k - 1) :
     /\ NamedLine(j)
     /\ LineIsDirectory(j)
     /\ LineIndent(j) < LineIndent(k)
     /\ \A m \in (j + 1)..(k - 1) : NamedLine(m) => LineIndent(m) > LineIndent(j)}

\* the path of the nearest of them, the empty path if there is none
NearestOpenDirectory(k) ==
  LET Nearest(open) ==
        IF open = {} THEN <<>>
        ELSE entries[EntryIndex(CHOOSE j \in open : \A m \in open : m <= j)]
  IN  Nearest(OpenDirectories(k))

\* parent_path of the loop body for the line that is due
ParentPath ==
  LET Top(popped) == IF popped # <<>> THEN popped[Len(popped)].path ELSE <<>>
  IN  Top(build_directory_stack(LineIndent(line_num), stack))

\* C25: before the root rewrite, the parent of a line's path is the path of
\* the nearest earlier directory-classified line with a strictly smaller
\* indent that no line in between of equal or smaller indent has closed,
\* and the empty path if there is none.
C25_ParentIsNearestOpenDirectory ==
  (call = "parse_ascii_tree_block" /\ AtTreeLine /\ NamedLine(line_num)) =>
    ParentPath = NearestOpenDirectory(line_num)

\* a directory under a directory has received a file, and after a sibling
\* directory the stack holds the sibling alone under their parent
C25_Witness ==
  /\ call = "parse_ascii_tree_block"
  /\ pc = "lines"
  /\ given = Join(<<L_dir, L_tee_dir, L_tee_dir>>, <<NL>>)
  /\ line_num = 4
  /\ entries = <<P_a, <<"a", "/", "b">>, <<"a", "/", "b">>>>
  /\ Len(stack) = 2

\* line k is indented, with spaces only and without any connector glyph
SpaceIndented(k) ==
  /\ Head(TreeTextLines[k]) = " "
  /\ Range(TreeTextLines[k]) \cap {VBar, Tee, Ell, Dash} = {}

\* the number of spaces line k starts with
LeadingSpaces(k) == Len(TreeTextLines[k]) - Len(LStripSet(TreeTextLines[k], {" "}))

\* a named line indented with spaces only is due
AtSpaceIndentedLine ==
  /\ call = "parse_ascii_tree_block"
  /\ AtTreeLine
  /\ NamedLine(line_num)
  /\ SpaceIndented(line_num)

\* C26 as stated: a line indented with spaces only has indent level 0 and
\* gets the parent a line without indent would get.
C26_SpaceIndentIsLevelZero ==
  AtSpaceIndentedLine =>
    /\ LineIndent(line_num) = 0
    /\ ParentPath = <<>>

\* C26 amended: a line indented with spaces only has the number of its
\* leading spaces as indent level, and right after a directory line of
\* smaller indent it is nested under that directory.
C26_SpaceIndentCountsSpaces ==
  AtSpaceIndentedLine =>
    /\ LineIndent(line_num) = LeadingSpaces(line_num)
    /\ (/\ line_num > 1
        /\ NamedLine(line_num - 1)
        /\ LineIsDirectory(line_num - 1)
        /\ LineIndent(line_num - 1) < LeadingSpaces(line_num)) =>
         ParentPath = entries[Len(entries)]

\* the file indented by two spaces under a/ has become a/u.py
C26_Witness ==
  /\ call = "parse_ascii_tree_block"
  /\ pc = "lines"
  /\ given = Join(<<L_dir, L_spaces_file>>, <<NL>>)
  /\ line_num = 3
  /\ entries = <<P_a, P_a_u>>

\* ===========================================================================
\* the last steps of the rescue loop (SpecMain)
\* ===========================================================================

\* the files of code_map that hold no block
EmptyFiles(cm) == {cm[k].key : k \in {j \in 1..Len(cm) : cm[j].val = <<>>}}

\* the hint of the block the loop is at, if it has one, matches no file:
\* find_matching_files gives no candidate and the basename gives no file
HintMatchesNoFile ==
  \/ RescueHint.hint = None
  \/ /\ find_matching_files(RescueHint.hint, code_map, fallback_level) = <<>>
     /\ ~try_basename_match([code_map |-> code_map, warnings |-> rescue_warnings],
                            unassigned[n], RescueHint.hint, RescueHint.line_num,
                            strip_hints).ret

\* the first line of the block, as an assumed heading, matches no file
AssumedMatchesNoFile ==
  find_matching_files(CleanHint(SplitLines(unassigned[n])[1]), code_map, fallback_level) = <<>>

\* no entry of heading_map matches the block
HeadingMatchesNoFile ==
  ~try_heading_match([code_map |-> code_map, warnings |-> rescue_warnings],
                     unassigned[n], heading_map, strip_hints).ret

\* none of the steps before the last places the block the loop is at
NoEarlierStepPlaces ==
  /\ AtRescuedBlock
  /\ HintMatchesNoFile
  /\ AssumedMatchesNoFile
  /\ HeadingMatchesNoFile

\* C27: with fallback level high and no prompt, a block that no earlier step
\* places goes to a file of code_map that was empty whenever there is one,
\* and stays unassigned only when no file is empty.
C27_LastResortPlacement ==
  [][(NoEarlierStepPlaces /\ fallback_level = "high" /\ ~interactive /\ n' = n + 1) =>
       IF EmptyFiles(code_map) # {}
       THEN /\ still_unassigned' = still_unassigned
            /\ \E f \in EmptyFiles(code_map) : Len(DictGet(code_map', f)) = 1
       ELSE still_unassigned' = Append(still_unassigned, unassigned[n])]_vars

\* ---------------------------------------------------------------------------
\* the body of the rescue loop on one block, with the operator's answers given

\* unassigned blocks, as the primary pass leaves them (no trailing newline)
R_plain == <<"x">>
R_hint_short == <<"#", " ", "u", ".", "p", "y", NL, "x">>
R_hint_full == <<"#", " ", "a", "/", "u", ".", "p", "y", NL, "x">>
R_hint_other == <<"#", " ", "z", "z", NL, "x">>
R_bare_name == <<"u", ".", "p", "y", NL, "x">>

RescueBlocks == {R_plain, R_hint_short, R_hint_full, R_hint_other, R_bare_name}

\* code_map for the files a/u.py and b/u.py, each empty or with one block
RescueCodeMaps ==
  {<<[key |-> P_a_u, val |-> va], [key |-> P_b_u, val |-> vb]>> :
     va \in {<<>>, <<R_plain>>}, vb \in {<<>>, <<R_plain>>}}

RescueHeadingMaps == {<<>>, <<[key |-> P_a_u, val |-> S_u_py]>>}

\* the answers to the prompts of steps 2 and 3 that the prompt accepts for
\* the block (an answer it does not accept is asked for again)
AcceptedAnswers(cm, code, hm, strip, inter, level) ==
  {a \in [c1 : Answers, c2 : Answers] :
     RescueBody([code_map |-> cm, still_unassigned |-> <<>>, warnings |-> <<>>,
                 status |-> "done"],
                code, hm, strip, inter, level, a.c1, a.c2).status # "invalid"}

InitRescue ==
  /\ pc = "rescue"
  /\ call = "try_rescue_unassigned"
  /\ tree_files = TreeAmbiguous
  /\ files_always = {}
  /\ dirs_always = {}
  /\ strip_hints \in BOOLEAN
  /\ interactive \in BOOLEAN
  /\ conflict_strategy = "first"
  /\ fallback_level \in FallbackLevels
  /\ code_map \in RescueCodeMaps
  /\ heading_map \in RescueHeadingMaps
  /\ unassigned \in {<<b>> : b \in RescueBlocks}
  /\ given \in AcceptedAnswers(code_map, unassigned[1], heading_map, strip_hints, interactive,
                               fallback_level)
  /\ ~interactive => given = [c1 |-> "s", c2 |-> "s"]
  /\ result = <<>>
  /\ tokens = <<>>
  /\ fed = 0
  /\ i = 1
  /\ current_file = None
  /\ current_heading = None
  /\ skip_next_fence_for_file_structure = FALSE
  /\ file_paths = DictKeys(code_map)
  /\ warnings = <<>>
  /\ mapped_code_map = code_map
  /\ items = <<>>
  /\ n = 1
  /\ still_unassigned = <<>>
  /\ rescue_warnings = <<>>
  /\ written = <<>>
  /\ line_num = 1
  /\ stack = <<>>
  /\ entries = <<>>

\* one pass through the loop body with the answers of the call
RescueOne ==
  /\ call = "try_rescue_unassigned"
  /\ AtRescue
  /\ RescueBecomes(RescueBody(Rescue, unassigned[n], heading_map, strip_hints, interactive,
                              fallback_level, given.c1, given.c2))
  /\ n' = n + 1
  /\ UNCHANGED <<pc, main_frame, unassigned, warnings, heading_map, mapped_code_map, items,
                 written>>

\* the operator's answer is abort: sys.exit(1) leaves the loop
RescueOneAbort ==
  /\ call = "try_rescue_unassigned"
  /\ AtRescue
  /\ RescueBody(Rescue, unassigned[n], heading_map, strip_hints, interactive,
                fallback_level, given.c1, given.c2).status = "aborted"
  /\ pc' = "aborted"
  /\ UNCHANGED <<main_frame, code_map, unassigned, warnings, heading_map, mapped_code_map,
                 items, n, still_unassigned, rescue_warnings, written>>

\* the call of try_rescue_unassigned and what main does after it
NextRescue ==
  \/ RescueOne
  \/ RescueOneAbort
  \/ RescueReturn
  \/ FuzzySkip
  \/ FuzzyStart
  \/ FuzzyBatch
  \/ FuzzyInteractive
  \/ FuzzyAbort
  \/ FuzzyDone
  \/ Write

SpecRescue == InitRescue /\ [][NextRescue]_vars

\* the operator is asked about the hint of the block the loop is at (several
\* files match it) and answers skip
SkippedAtHintPrompt ==
  /\ call = "try_rescue_unassigned"
  /\ AtRescuedBlock
  /\ interactive
  /\ RescueHint.hint # None
  /\ Len(find_matching_files(RescueHint.hint, code_map, fallback_level)) > 1
  /\ given.c1 = "s"

\* C28: a block whose hint has several candidates and for which the operator
\* answers skip is left unassigned at every fallback level: the pass appends
\* it to still_unassigned and to no list of code_map.
C28_SkippedBlockStaysUnassigned ==
  [][(SkippedAtHintPrompt /\ n' = n + 1) =>
       /\ code_map' = code_map
       /\ still_unassigned' = Append(still_unassigned, unassigned[n])]_vars

\* ---------------------------------------------------------------------------
\* the operator answers abort at a prompt of the rescue loop: at the prompt
\* for the hint of the block, or, for a block without hint, at the prompt
\* for its first line as assumed heading
AbortAnswered ==
  /\ call = "try_rescue_unassigned"
  /\ AtRescuedBlock
  /\ interactive
  /\ \/ /\ RescueHint.hint # None
        /\ Len(find_matching_files(RescueHint.hint, code_map, fallback_level)) > 1
        /\ given.c1 = "a"
     \/ /\ RescueHint.hint = None
        /\ fallback_level \in {"medium", "high"}
        /\ Len(find_matching_files(CleanHint(SplitLines(unassigned[n])[1]), code_map,
                                   fallback_level)) > 1
        /\ given.c2 = "a"

\* C29: when the operator answers abort at a prompt the run ends there: the
\* step leaves code_map, the unassigned lists and the written files as they
\* are, and after it nothing is assigned and the writer does not run.
C29_AbortEndsTheRun ==
  [][/\ AbortAnswered =>
          /\ pc' = "aborted"
          /\ code_map' = code_map
          /\ still_unassigned' = still_unassigned
          /\ unassigned' = unassigned
     /\ pc = "aborted" => FALSE]_vars

\* the run was aborted at the prompt for the hint u.py of the first block
C29_Witness ==
  /\ call = "try_rescue_unassigned"
  /\ pc = "aborted"
  /\ n = 1
  /\ given.c1 = "a"
  /\ unassigned = <<R_hint_short>>
  /\ written = <<>>

\* ---------------------------------------------------------------------------
\* s is t with some elements left out, the others in the order they have in t
RECURSIVE IsSubsequence(_, _)
IsSubsequence(s, t) ==
  IF s = <<>> THEN TRUE
  ELSE IF t = <<>> THEN FALSE
  ELSE IF s[1] = t[1] THEN IsSubsequence(Tail(s), Tail(t))
  ELSE IsSubsequence(s, Tail(t))

\* main is in its call of try_rescue_unassigned
InRescuePass == pc \in {"rescue_call", "rescue"}

\* C30: a step of the rescue pass leaves the keys of code_map in place and
\* every list of code_map a prefix of what it becomes, leaves heading_map as
\* it is, and keeps the still-unassigned list a subsequence, in the same
\* order, of the blocks the loop has been through; the list the pass returns
\* is such a subsequence of the list it was given.
C30_RescueOnlyAppends ==
  [][InRescuePass =>
       /\ ListsExtended(code_map, code_map')
       /\ heading_map' = heading_map
       /\ pc' = "rescue" => IsSubsequence(still_unassigned', SubSeq(unassigned', 1, n' - 1))
       /\ pc' = "fuzzy" => IsSubsequence(unassigned', unassigned)]_vars

\* the pass has been through two different blocks or more: it has appended
\* the first to a file and has left the second unassigned
C30_Witness ==
  /\ pc = "rescue"
  /\ n > Len(unassigned)
  /\ Len(unassigned) >= 2
  /\ unassigned[1] # unassigned[2]
  /\ still_unassigned = <<unassigned[2]>>
  /\ code_map # mapped_code_map
  /\ \E w \in 1..Len(rescue_warnings) :
        /\ rescue_warnings[w].glyph = "info"
        /\ DictGet(code_map, rescue_warnings[w].target) # <<>>
====
